---------------------------- MODULE Spec2Model ----------------------------
(***************************************************************************)
(* Model of the Teltrip data layer (lib/teltrip.js and its revisions):     *)
(*   - pMap, the concurrency-bounded mapper;                               *)
(*   - pickCostFromTemplate / getTemplateCost, the cost resolver and its   *)
(*     module-level cache tplCache;                                        *)
(*   - fetchAllData, the row assembler.                                    *)
(* JavaScript values are modelled as tagged records, so that typeof tests, *)
(* the ?? and || operators and Number() coercion are computed, not assumed.*)
(* Amounts are whole numbers.                                              *)
(***************************************************************************)
EXTENDS Integers, Sequences, FiniteSets, TLC

VARIABLES
  \* ---- pMap(list, fn, concurrency) ----
  list,          \* the input array
  concurrency,   \* the third argument
  i,             \* the shared index cursor (number of indices handed out)
  out,           \* the result array, Empty where nothing was stored yet
  workers,       \* the async workers: [st, idx]
  pmap,          \* the promise returned by pMap: [st, value]
  order,         \* history: the indices in the order their fn calls completed
  \* ---- getTemplateCost(templateId) ----
  catalog,       \* upstream: the template object stored for each template id
  tplCache,      \* the module-level Map: cached id -> cost (a number or null)
  call,          \* the getTemplateCost call in progress, or the last one
  \* ---- fetchAllData(accountIdParam) ----
  env,           \* process.env: OCS_BASE_URL, OCS_TOKEN set or not, OCS_ACCOUNT_ID
  fa,            \* the fetchAllData call: its position, the row in work, its outcome
  listing,       \* history: the subscribers the listing request returned
  rows,          \* the rows built from the listing, enriched in place
  \* ---- weekWindows(startYMD, endYMD) ----
  ww,            \* the generator: its arguments, its position, the windows yielded
  \* ---- fetchAggregatedUsage(subscriberId) ----
  ag,            \* the call: its windows, its pMap workers, the two sums, its outcome
  \* ---- callOCS(payload) ----
  tc,            \* the call: the revision of callOCS, its position, its timer, its outcome
  \* ---- GET /api/fetch-data ----
  rt,            \* the request: the environment, its position, the lookups in flight, the response
  \* ---- getLatestPackage(subscriberId) ----
  lp,            \* the call: the package list upstream, its position, what it returned
  \* ---- two runs of fetchAllData ----
  tw,            \* the upstream answers, fixed for both runs; the run; the rows of the first run
  \* ---- getWeeklyUsage(subscriberId) ----
  gw,            \* the call: its windows, the requests in flight, the requests sent, the total
  \* ---- fetchAllSubscribers(accountId) ----
  fs,            \* the call: the backend, the page asked for, the subscribers collected, its position
  \* ---- fetchAllData with the rows enriched through pMap ----
  pp             \* the run: its position, the cursor of pMap, the rows, the task of each row, the template cost cache

pmVars == <<list, concurrency, i, out, workers, pmap, order>>
crVars == <<catalog, tplCache, call>>
faVars == <<env, fa, listing, rows>>
wwVars == <<ww>>
agVars == <<ag>>
tcVars == <<tc>>
rtVars == <<rt>>
lpVars == <<lp>>
twVars == <<tw>>
gwVars == <<gw>>
fsVars == <<fs>>
ppVars == <<pp>>

vars == <<pmVars, crVars, faVars, wwVars, agVars, tcVars, rtVars, lpVars, twVars, gwVars, fsVars, ppVars>>

\* what the steps of one part leave alone
pmOthers == <<crVars, faVars, wwVars, agVars, tcVars, rtVars, lpVars, twVars, gwVars, fsVars, ppVars>>
crOthers == <<pmVars, faVars, wwVars, agVars, tcVars, rtVars, lpVars, twVars, gwVars, fsVars, ppVars>>
faOthers == <<pmVars, wwVars, agVars, tcVars, rtVars, lpVars, twVars, gwVars, fsVars, ppVars>>
wwOthers == <<pmVars, crVars, faVars, agVars, tcVars, rtVars, lpVars, twVars, gwVars, fsVars, ppVars>>
agOthers == <<pmVars, crVars, faVars, wwVars, tcVars, rtVars, lpVars, twVars, gwVars, fsVars, ppVars>>
tcOthers == <<pmVars, crVars, faVars, wwVars, agVars, rtVars, lpVars, twVars, gwVars, fsVars, ppVars>>
rtOthers == <<pmVars, crVars, faVars, wwVars, agVars, tcVars, lpVars, twVars, gwVars, fsVars, ppVars>>
lpOthers == <<pmVars, crVars, faVars, wwVars, agVars, tcVars, rtVars, twVars, gwVars, fsVars, ppVars>>
twOthers == <<pmVars, crVars, faVars, wwVars, agVars, tcVars, rtVars, lpVars, gwVars, fsVars, ppVars>>
gwOthers == <<pmVars, crVars, faVars, wwVars, agVars, tcVars, rtVars, lpVars, twVars, fsVars, ppVars>>
fsOthers == <<pmVars, crVars, faVars, wwVars, agVars, tcVars, rtVars, lpVars, twVars, gwVars, ppVars>>
ppOthers == <<pmVars, crVars, faVars, wwVars, agVars, tcVars, rtVars, lpVars, twVars, gwVars, fsVars>>

-----------------------------------------------------------------------------
(* Bounds of the model *)

MaxItems == 3
MaxConc == 3
\* the most fields a template object of the catalog has
MaxFields == 2
\* the most subscribers the listing request returns
MaxSubs == 2
\* the day (as a day number) on which fetchAllData runs
Today == 8
\* the last day (as a day number) a date range can start or end on
MaxDay == 22
\* the weeks between RANGE_START_YMD and the day of an aggregated-usage call
MaxWeeks == 7
\* the most packages a subscriber has upstream
MaxPkgs == 3

-----------------------------------------------------------------------------
(* JavaScript values *)

Undef == [t |-> "undefined"]
Null == [t |-> "null"]
Num(n) == [t |-> "num", n |-> n]
NaN == [t |-> "nan"]
Str(s) == [t |-> "str", s |-> s]
\* An object is the sequence of its <<key, value>> entries, in insertion order.
Obj(f) == [t |-> "obj", f |-> f]
Arr(a) == [t |-> "arr", a |-> a]

Min2(a, b) == IF a <= b THEN a ELSE b

SeqMin(s) == CHOOSE x \in {s[j] : j \in 1..Len(s)} : \A j \in 1..Len(s) : x <= s[j]

\* The characters of the strings that occur in the model.
Spell(s) ==
  CASE s = "cost" -> <<"c","o","s","t">>
    [] s = "price" -> <<"p","r","i","c","e">>
    [] s = "amount" -> <<"a","m","o","u","n","t">>
    [] s = "value" -> <<"v","a","l","u","e">>
    [] s = "oneTime" -> <<"o","n","e","T","i","m","e">>
    [] s = "oneTimePrice" -> <<"o","n","e","T","i","m","e","P","r","i","c","e">>
    [] s = "subscriberCost" -> <<"s","u","b","s","c","r","i","b","e","r","C","o","s","t">>
    [] s = "activationFee" -> <<"a","c","t","i","v","a","t","i","o","n","F","e","e">>
    [] s = "charges" -> <<"c","h","a","r","g","e","s">>
    [] s = "prices" -> <<"p","r","i","c","e","s">>
    [] s = "priceList" -> <<"p","r","i","c","e","L","i","s","t">>
    [] s = "items" -> <<"i","t","e","m","s">>
    [] s = "name" -> <<"n","a","m","e">>
    [] s = "type" -> <<"t","y","p","e">>
    [] s = "kind" -> <<"k","i","n","d">>
    [] s = "chargeType" -> <<"c","h","a","r","g","e","T","y","p","e">>
    [] s = "category" -> <<"c","a","t","e","g","o","r","y">>
    [] s = "ONE_TIME" -> <<"O","N","E","_","T","I","M","E">>
    [] s = "BUNDLE" -> <<"B","U","N","D","L","E">>
    [] s = "-2" -> <<"-","2">>
    [] s = "1.2.3" -> <<"1",".","2",".","3">>
    [] s = "Basic" -> <<"B","a","s","i","c">>
    [] s = "" -> <<>>

LowerChar(c) ==
  CASE c = "B" -> "b" [] c = "C" -> "c" [] c = "D" -> "d" [] c = "E" -> "e"
    [] c = "F" -> "f" [] c = "I" -> "i" [] c = "L" -> "l" [] c = "M" -> "m"
    [] c = "N" -> "n" [] c = "O" -> "o" [] c = "P" -> "p" [] c = "T" -> "t"
    [] c = "U" -> "u" [] OTHER -> c

\* s.toLowerCase(), on characters
LowerChars(cs) == [j \in 1..Len(cs) |-> LowerChar(cs[j])]

\* whether the characters sub occur in cs (an unanchored regex literal)
Contains(cs, sub) ==
  \E b \in 0..(Len(cs) - Len(sub)) : \A j \in 1..Len(sub) : cs[b + j] = sub[j]

DigitChars == {"0","1","2","3","4","5","6","7","8","9"}

DigitVal(c) ==
  CASE c = "0" -> 0 [] c = "1" -> 1 [] c = "2" -> 2 [] c = "3" -> 3 [] c = "4" -> 4
    [] c = "5" -> 5 [] c = "6" -> 6 [] c = "7" -> 7 [] c = "8" -> 8 [] c = "9" -> 9

RECURSIVE DigitsValue(_)
DigitsValue(cs) ==
  IF Len(cs) = 0 THEN 0
  ELSE 10 * DigitsValue(SubSeq(cs, 1, Len(cs) - 1)) + DigitVal(cs[Len(cs)])

\* Number(text) on the characters of text: "" is 0, an optionally signed
\* decimal literal is its value, anything else is NaN. Fraction digits are
\* dropped: the strings of the model carry whole amounts.
CharsToNumber(cs) ==
  LET neg == Len(cs) > 0 /\ cs[1] = "-"
      body == IF Len(cs) > 0 /\ cs[1] \in {"-", "+"} THEN SubSeq(cs, 2, Len(cs)) ELSE cs
      dots == {j \in 1..Len(body) : body[j] = "."}
      dot == IF dots = {} THEN Len(body) + 1 ELSE CHOOSE j \in dots : TRUE
      int == SubSeq(body, 1, dot - 1)
      wellFormed == /\ Cardinality(dots) <= 1
                    /\ \A j \in 1..Len(body) : body[j] \in DigitChars \cup {"."}
                    /\ \E j \in 1..Len(body) : body[j] \in DigitChars
  IN IF Len(cs) = 0 THEN Num(0)
     ELSE IF wellFormed THEN Num(IF neg THEN 0 - DigitsValue(int) ELSE DigitsValue(int))
     ELSE NaN

\* v.replace(/[^0-9.]/g, "")
StripNonNumeric(cs) == SelectSeq(cs, LAMBDA c : c \in DigitChars \cup {"."})

\* Number(v)
RECURSIVE ToNumber(_)
ToNumber(v) ==
  CASE v.t = "num" -> v
    [] v.t = "null" -> Num(0)
    [] v.t = "str" -> CharsToNumber(Spell(v.s))
    [] v.t = "arr" -> IF Len(v.a) = 0 THEN Num(0)
                      ELSE IF Len(v.a) > 1 THEN NaN
                      ELSE IF v.a[1].t \in {"null", "undefined"} THEN Num(0)
                      ELSE ToNumber(v.a[1])
    [] OTHER -> NaN

\* Number.isFinite(v)
IsFinite(v) == v.t = "num"

\* !!v
Truthy(v) ==
  CASE v.t \in {"undefined", "null", "nan"} -> FALSE
    [] v.t = "num" -> v.n # 0
    [] v.t = "str" -> v.s # ""
    [] OTHER -> TRUE

\* v == null
Nullish(v) == v.t \in {"undefined", "null"}

\* a ?? b
Coalesce(a, b) == IF Nullish(a) THEN b ELSE a

\* a || b
OrElse(a, b) == IF Truthy(a) THEN a ELSE b

\* typeof v === "object" (null included)
IsObjectType(v) == v.t \in {"obj", "arr", "null"}

\* o?.k
Get(o, k) ==
  IF o.t = "obj" /\ \E j \in 1..Len(o.f) : o.f[j][1] = k
    THEN o.f[CHOOSE j \in 1..Len(o.f) : o.f[j][1] = k][2]
    ELSE Undef

\* o?.[0]
First(o) == IF o.t = "arr" /\ Len(o.a) > 0 THEN o.a[1] ELSE Undef

-----------------------------------------------------------------------------
(* pickCostFromTemplate *)

\* the depth bound of walk: if (!o || depth > 6) return
MaxDepth == 6

\* /(one[_-]?time|onetime|activation|setup|fee)/ on lower-case characters
OneTimeRe(cs) ==
  \/ Contains(cs, <<"o","n","e","t","i","m","e">>)
  \/ Contains(cs, <<"o","n","e","_","t","i","m","e">>)
  \/ Contains(cs, <<"o","n","e","-","t","i","m","e">>)
  \/ Contains(cs, <<"a","c","t","i","v","a","t","i","o","n">>)
  \/ Contains(cs, <<"s","e","t","u","p">>)
  \/ Contains(cs, <<"f","e","e">>)

\* /(cost|price|amount|one[_-]?time|onetime|activation|setup|subscriber(cost)?|fee|value)/i
CostKeyRe(k) ==
  LET cs == LowerChars(Spell(k))
  IN \/ Contains(cs, <<"c","o","s","t">>)
     \/ Contains(cs, <<"p","r","i","c","e">>)
     \/ Contains(cs, <<"a","m","o","u","n","t">>)
     \/ OneTimeRe(cs)
     \/ Contains(cs, <<"s","u","b","s","c","r","i","b","e","r">>)
     \/ Contains(cs, <<"v","a","l","u","e">>)

\* /(one[_-]?time|onetime|activation|setup|fee)/i.test(k)
OneTimeKeyRe(k) == OneTimeRe(LowerChars(Spell(k)))

\* lk === "price" || lk === "prices" || lk === "pricing" || lk === "pricelist" || lk === "charges"
IsHolderKey(k) ==
  LowerChars(Spell(k)) \in
    { <<"p","r","i","c","e">>, <<"p","r","i","c","e","s">>, <<"p","r","i","c","i","n","g">>,
      <<"p","r","i","c","e","l","i","s","t">>, <<"c","h","a","r","g","e","s">> }

\* /^(activationfee|setupfee)$/.test(lk)
IsFeeKey(k) ==
  LowerChars(Spell(k)) \in
    { <<"a","c","t","i","v","a","t","i","o","n","f","e","e">>, <<"s","e","t","u","p","f","e","e">> }

\* the discriminator of an array entry:
\* String(item.type || item.kind || item.chargeType || item.category || "").toLowerCase()
ItemIsOneTime(item) ==
  LET d == OrElse(OrElse(OrElse(OrElse(Get(item, "type"), Get(item, "kind")),
                                Get(item, "chargeType")), Get(item, "category")), Str(""))
  IN d.t = "str" /\ OneTimeRe(LowerChars(Spell(d.s)))

\* take(val, bucket): the number pushed for val, as a sequence of length 0 or 1
take(val) ==
  LET n == CASE val.t = "num" -> val
             [] val.t = "str" -> CharsToNumber(StripNonNumeric(Spell(val.s)))
             [] val.t \in {"obj", "arr"} ->
                  ToNumber(Coalesce(Coalesce(Coalesce(Get(val, "value"), Get(val, "amount")),
                                             Get(val, "cost")), Get(val, "price")))
             [] OTHER -> NaN
  IN IF IsFinite(n) THEN <<n.n>> ELSE <<>>

NoCandidates == [one |-> <<>>, gen |-> <<>>]
Both(a, b) == [one |-> a.one \o b.one, gen |-> a.gen \o b.gen]
Into(isOne, nums) == IF isOne THEN [one |-> nums, gen |-> <<>>] ELSE [one |-> <<>>, gen |-> nums]

\* the candidates an array entry contributes before it is walked
takeItem(item) ==
  IF item.t \in {"obj", "arr"}
    THEN LET isOne == ItemIsOneTime(item)
             price == Get(item, "price")
             a == IF Truthy(price) /\ IsObjectType(price) THEN take(price) ELSE <<>>
             b == take(Coalesce(Coalesce(Coalesce(Coalesce(Get(item, "oneTime"), Get(item, "amount")),
                                                  Get(item, "cost")), Get(item, "price")),
                               Get(item, "value")))
         IN Into(isOne, a \o b)
    ELSE NoCandidates

\* walk(o, depth): the numbers pushed to oneTime and to general
RECURSIVE walk(_, _)
RECURSIVE walkItems(_, _, _)
RECURSIVE walkEntries(_, _, _)
walk(o, depth) ==
  IF ~Truthy(o) \/ depth > MaxDepth THEN NoCandidates
  ELSE IF o.t = "arr" THEN walkItems(o.a, 1, depth)
  ELSE IF o.t = "obj" THEN walkEntries(o.f, 1, depth)
  ELSE NoCandidates

\* for (const item of o) { ...take...; walk(item, depth + 1) }
walkItems(a, j, depth) ==
  IF j > Len(a) THEN NoCandidates
  ELSE Both(Both(takeItem(a[j]), walk(a[j], depth + 1)), walkItems(a, j + 1, depth))

\* for (const [k, v] of Object.entries(o)) { ... }
walkEntries(f, j, depth) ==
  IF j > Len(f) THEN NoCandidates
  ELSE LET k == f[j][1]
           v == f[j][2]
           here == IF IsHolderKey(k) THEN Into(FALSE, take(v))
                   ELSE IF IsFeeKey(k) THEN Into(TRUE, take(v))
                   ELSE IF CostKeyRe(k) THEN Into(OneTimeKeyRe(k), take(v))
                   ELSE IF Truthy(v) /\ IsObjectType(v) THEN walk(v, depth + 1)
                   ELSE NoCandidates
       IN Both(here, walkEntries(f, j + 1, depth))

Positives(nums) == SelectSeq(nums, LAMBDA n : n > 0)
Includes(nums, x) == \E j \in 1..Len(nums) : nums[j] = x

\* the selection of an older revision: pos[0] ?? nums[0] ?? null over one list
selectCost_Unbucketed(oneTime, general) ==
  LET nums == oneTime \o general
  IN IF Positives(nums) # <<>> THEN Num(SeqMin(Positives(nums)))
     ELSE IF nums # <<>> THEN Num(nums[1])
     ELSE Null

\* the selection of another revision: the smallest non-negative candidate
selectCost_NonNegative(oneTime, general) ==
  LET nonNeg == SelectSeq(oneTime \o general, LAMBDA n : n >= 0)
  IN IF nonNeg # <<>> THEN Num(SeqMin(nonNeg)) ELSE Null

\* the selection at the end of pickCostFromTemplate
selectCost(oneTime, general) ==
  IF Positives(oneTime) # <<>> THEN Num(SeqMin(Positives(oneTime)))
  ELSE IF Positives(general) # <<>> THEN Num(SeqMin(Positives(general)))
  ELSE IF Includes(oneTime, 0) THEN Num(0)
  ELSE IF Includes(general, 0) THEN Num(0)
  ELSE Null

pickCostFromTemplate(tpl) ==
  IF ~Truthy(tpl) \/ ~IsObjectType(tpl) THEN Null
  ELSE LET c == walk(tpl, 0) IN selectCost(c.one, c.gen)

-----------------------------------------------------------------------------
(* The template catalog of the upstream service *)

ChargeList ==
  Arr(<< Obj(<< <<"type", Str("ONE_TIME")>>, <<"price", Obj(<< <<"value", Num(3)>> >>)>> >>),
         Obj(<< <<"type", Str("BUNDLE")>>, <<"price", Obj(<< <<"value", Num(50)>> >>)>> >>) >>)

FieldKeys == <<"cost", "activationFee", "charges", "items", "name">>

FieldValues ==
  { Num(0), Num(2), Num(5), Str("1.2.3"), Obj(<< <<"value", Num(3)>> >>), ChargeList }

KeySet == {FieldKeys[j] : j \in 1..Len(FieldKeys)}

\* the object with the fields K, valued by f, in the order of FieldKeys
MakeObj(K, f) ==
  LET ks == SelectSeq(FieldKeys, LAMBDA k : k \in K)
  IN Obj([j \in 1..Len(ks) |-> <<ks[j], f[ks[j]]>>])

Templates ==
  UNION { {MakeObj(K, f) : f \in [K -> FieldValues]} :
          K \in {S \in SUBSET KeySet : Cardinality(S) \in 1..MaxFields} }

-----------------------------------------------------------------------------
(* getTemplateCost and tplCache *)

\* callOCS threw (network failure or a non-2xx status)
Threw == [t |-> "threw"]

\* What callOCS can return for { listPrepaidPackageTemplate: { templateId: id } }.
ListResponses(id) ==
  {Threw, Obj(<<>>),
   Obj(<< <<"listPrepaidPackageTemplateRsp", Obj(<< <<"prepaidPackageTemplate", Arr(<<>>)>> >>)>> >>)}
  \cup (IF id \in DOMAIN catalog
          THEN { Obj(<< <<"listPrepaidPackageTemplateRsp",
                          Obj(<< <<"prepaidPackageTemplate", Arr(<<catalog[id]>>)>> >>)>> >>),
                 Obj(<< <<"listPrepaidPackageTemplateRsp",
                          Obj(<< <<"prepaidPackageTemplate", catalog[id]>> >>)>> >>) }
          ELSE {})

\* What callOCS can return for { getPrepaidPackageTemplate: { prepaidPackageTemplateId: id } }.
GetResponses(id) ==
  {Threw, Obj(<<>>)}
  \cup (IF id \in DOMAIN catalog
          THEN { Obj(<< <<"prepaidPackageTemplate", catalog[id]>> >>),
                 Obj(<< <<"template", catalog[id]>> >>),
                 Obj(<< <<"prepaidPackageTemplates", Arr(<<catalog[id]>>)>> >>) }
          ELSE {})

\* r1?.listPrepaidPackageTemplateRsp?.prepaidPackageTemplate?.[0]
\*   || r1?.listPrepaidPackageTemplateRsp?.prepaidPackageTemplate || null
TemplateOfList(r1) ==
  LET t == Get(Get(r1, "listPrepaidPackageTemplateRsp"), "prepaidPackageTemplate")
  IN OrElse(OrElse(First(t), t), Null)

\* r2?.prepaidPackageTemplate || r2?.template || r2?.prepaidPackageTemplates?.[0] || null
TemplateOfGet(r2) ==
  OrElse(OrElse(OrElse(Get(r2, "prepaidPackageTemplate"), Get(r2, "template")),
                First(Get(r2, "prepaidPackageTemplates"))), Null)

\* const cost = (tpl && (pickCostFromTemplate(tpl) ?? tpl.cost ?? ... ?? tpl?.price?.value)) ?? null
CostOf(tpl) ==
  LET inner ==
        Coalesce(Coalesce(Coalesce(Coalesce(Coalesce(Coalesce(
          pickCostFromTemplate(tpl), Get(tpl, "cost")), Get(tpl, "price")), Get(tpl, "amount")),
          Get(tpl, "oneTimePrice")), Get(tpl, "subscriberCost")), Get(Get(tpl, "price"), "value"))
  IN Coalesce(IF Truthy(tpl) THEN inner ELSE tpl, Null)

\* const val = Number.isFinite(Number(cost)) ? Number(cost) : null
ValOf(cost) == IF IsFinite(ToNumber(cost)) THEN ToNumber(cost) ELSE Null

\* a cache test that takes a cached null for a miss
cacheHas_NonNull(id) == id \in DOMAIN tplCache /\ tplCache[id] # Null

\* tplCache.has(id)
cacheHas(id) == id \in DOMAIN tplCache

\* tplCache.set(id, null), written before the cost is resolved
cacheSet_BeforeResolve(id, val) ==
  [k \in DOMAIN tplCache \cup {id} |-> IF k = id THEN Null ELSE tplCache[k]]

\* tplCache.set(id, val)
cacheSet(id, val) == [k \in DOMAIN tplCache \cup {id} |-> IF k = id THEN val ELSE tplCache[k]]

NoCall ==
  [pc |-> "idle", id |-> 0, known |-> FALSE, before |-> Null, sent |-> <<>>,
   r1 |-> Undef, tpl |-> Null, picked |-> Null, val |-> Null]

TemplateIds == {1, 2}

\* pMap is not in use
pmUnused ==
  /\ list = <<>> /\ concurrency = 1 /\ i = 0 /\ out = <<>> /\ workers = <<>>
  /\ pmap = [st |-> "notcalled", value |-> <<>>] /\ order = <<>>

\* getTemplateCost is not in use
crUnused == catalog = <<>> /\ tplCache = <<>> /\ call = NoCall

NoFetch ==
  [pc |-> "idle", k |-> 0, accountId |-> 0, cause |-> "none", w |-> 0, total |-> 0,
   resp |-> Undef]

\* fetchAllData is not in use
faUnused ==
  /\ env = [base |-> TRUE, token |-> TRUE, accountId |-> 0]
  /\ fa = NoFetch /\ listing = <<>> /\ rows = <<>>

NoWindows == [pc |-> "idle", zone |-> "UTC", start |-> 0, end |-> 0, s |-> 0, out |-> <<>>]

\* weekWindows is not in use
wwUnused == ww = NoWindows

NoAggregate ==
  [pc |-> "idle", today |-> 0, windows |-> <<>>, i |-> 0, awaited |-> {}, thrown |-> {},
   got |-> <<>>, sumBytes |-> 0, sumResCost |-> 0, overtaken |-> FALSE]

\* fetchAggregatedUsage is not in use
agUnused == ag = NoAggregate

NoTransport ==
  [rev |-> "lib", base |-> TRUE, token |-> TRUE, pc |-> "idle", attempt |-> 0, sent |-> 0,
   statuses |-> <<>>, text |-> Undef, timer |-> "none", stalled |-> FALSE, cause |-> "none",
   value |-> Undef]

\* callOCS is not in use on its own
tcUnused == tc = NoTransport

NoRoute ==
  [base |-> TRUE, token |-> TRUE, pc |-> "idle", subs |-> <<>>, awaited |-> {}, cost |-> <<>>,
   sent |-> 0, cause |-> "none", response |-> [t |-> "none"]]

\* the route handler is not in use
rtUnused == rt = NoRoute

NoLatest == [pc |-> "idle", pkgs |-> <<>>, resp |-> Undef, result |-> Undef]

\* getLatestPackage is not in use on its own
lpUnused == lp = NoLatest

NoTwice ==
  [run |-> 0, first |-> <<>>,
   args |-> [accountIdParam |-> Undef, includeUsage |-> TRUE, default |-> 0],
   up |-> [listing |-> Undef, pkgFails |-> {}, tplList |-> "throw", tplGet |-> "throw", usage |-> Undef]]

\* fetchAllData is not run twice
twUnused == tw = NoTwice

NoWeekly ==
  [pc |-> "idle", today |-> 0, windows |-> <<>>, i |-> 0, first |-> {}, second |-> {},
   sent |-> 0, total |-> 0]

\* getWeeklyUsage is not in use
gwUnused == gw = NoWeekly

NoPaging ==
  [pc |-> "idle", backend |-> "paged", shape |-> "nested", total |-> 0, page |-> 0, sent |-> 0,
   all |-> <<>>]

\* fetchAllSubscribers is not in use
fsUnused == fs = NoPaging

NoPipeline ==
  [pc |-> "idle", listing |-> <<>>, i |-> 0, rows |-> <<>>, task |-> <<>>, cache |-> <<>>,
   last |-> 0]

\* the pipeline over pMap is not in use
ppUnused == pp = NoPipeline

\* The states the cost resolver starts from: a catalog and an empty cache.
crInit ==
  /\ catalog \in [{1} -> Templates]
  /\ tplCache = <<>>
  /\ call = NoCall
  /\ pmUnused
  /\ faUnused
  /\ wwUnused
  /\ agUnused
  /\ tcUnused
  /\ rtUnused
  /\ lpUnused
  /\ twUnused
  /\ gwUnused
  /\ fsUnused
  /\ ppUnused

\* getTemplateCost(templateId) up to its first await, or to its return when
\* the id is falsy or cached. known and before record what the cache held.
getTemplateCost(id) ==
  /\ call.pc \in {"idle", "done"}
  /\ LET c == [NoCall EXCEPT !.id = id, !.known = id \in DOMAIN tplCache,
                             !.before = IF id \in DOMAIN tplCache THEN tplCache[id] ELSE Null]
     IN call' = IF id = 0 THEN [c EXCEPT !.pc = "done", !.val = Null]
                ELSE IF cacheHas(id) THEN [c EXCEPT !.pc = "done", !.val = tplCache[id]]
                ELSE [c EXCEPT !.pc = "list", !.sent = <<"listPrepaidPackageTemplate">>]
  /\ UNCHANGED <<catalog, tplCache>>

\* the end of getTemplateCost: the cost is picked, cached and returned
crFinishFrom(c, tpl) ==
  LET val == ValOf(CostOf(tpl))
  IN /\ tplCache' = cacheSet(c.id, val)
     /\ call' = [c EXCEPT !.pc = "done", !.tpl = tpl, !.val = val,
                          !.picked = IF Truthy(tpl) THEN pickCostFromTemplate(tpl) ELSE Null]

crFinish(tpl) == crFinishFrom(call, tpl)

\* verb A answers (or throws), and verb B is sent whatever A brought
crListAnswer_Both(r1) ==
  /\ call.pc = "list"
  /\ r1 \in ListResponses(call.id)
  /\ call' = [call EXCEPT !.pc = "get", !.r1 = r1,
                          !.sent = Append(@, "getPrepaidPackageTemplate")]
  /\ UNCHANGED <<catalog, tplCache>>

\* verb A answers (or throws): on no template, verb B is sent. r1 records
\* what verb A brought.
crListAnswer(r1) ==
  /\ call.pc = "list"
  /\ r1 \in ListResponses(call.id)
  /\ LET tpl == IF r1 = Threw THEN Null ELSE TemplateOfList(r1)
     IN IF ~Truthy(tpl)
          THEN /\ call' = [call EXCEPT !.pc = "get", !.r1 = r1,
                                       !.sent = Append(@, "getPrepaidPackageTemplate")]
               /\ UNCHANGED tplCache
          ELSE crFinishFrom([call EXCEPT !.r1 = r1], tpl)
  /\ UNCHANGED catalog

\* verb B answers (or throws)
crGetAnswer(r2) ==
  /\ call.pc = "get"
  /\ r2 \in GetResponses(call.id)
  /\ crFinish(IF r2 = Threw THEN Null ELSE TemplateOfGet(r2))
  /\ UNCHANGED catalog

CrNext ==
  \/ \E id \in {0} \cup TemplateIds : getTemplateCost(id) /\ UNCHANGED crOthers
  \/ \E r \in ListResponses(call.id) : crListAnswer(r) /\ UNCHANGED crOthers
  \/ \E r \in GetResponses(call.id) : crGetAnswer(r) /\ UNCHANGED crOthers

SpecCost == crInit /\ [][CrNext]_vars

\* the last call has returned
crDone == call.pc = "done"

\* the last call has returned and had fetched a template object
crGotTemplate == crDone /\ call.sent # <<>> /\ call.tpl.t = "obj"

\* the candidates of the template of the last call
crPreferred == {n \in 0..50 : Includes(walk(call.tpl, 0).one, n)}
crAll == crPreferred \cup {n \in 0..50 : Includes(walk(call.tpl, 0).gen, n)}
SetMin(S) == CHOOSE x \in S : \A y \in S : x <= y

\* C5: a call for an id that the cache already holds returns the cached
\* value, a cached null included, and sends no request.
C5_CachedNoRequest ==
  (crDone /\ call.known) => (call.sent = <<>> /\ call.val = call.before)

C5_Witness == crDone /\ call.known /\ call.before = Null /\ call.val = Null

\* the value verb A's answer holds at listPrepaidPackageTemplateRsp.prepaidPackageTemplate
crListed == Get(Get(call.r1, "listPrepaidPackageTemplateRsp"), "prepaidPackageTemplate")

\* C29: a resolution sends verb A first and verb B at most once after it, so
\* at most two requests; verb B is sent only when verb A threw or its answer
\* held no template; a throwing verb A does not end the call, verb B follows;
\* and the call returns a number or null.
C29_ListThenGetOnFailure ==
  /\ call.sent \in {<<>>, <<"listPrepaidPackageTemplate">>,
                    <<"listPrepaidPackageTemplate", "getPrepaidPackageTemplate">>}
  /\ Len(call.sent) = 2 =>
       \/ call.r1 = Threw
       \/ ~(crListed.t = "obj" \/ (crListed.t = "arr" /\ Len(crListed.a) > 0))
  /\ call.r1 = Threw => (call.pc \in {"get", "done"} /\ Len(call.sent) = 2)
  /\ crDone => call.val.t \in {"null", "num"}

\* Verb A threw, verb B brought the template, and the call returned its cost.
C29_Witness ==
  crDone /\ call.r1 = Threw /\ Len(call.sent) = 2 /\ call.val.t = "num"

\* C6: a call in which both verbs failed or brought no template object
\* returns null and caches null, never a number.
C6_FailureCachesNull ==
  (crDone /\ Len(call.sent) = 2 /\ ~Truthy(call.tpl)) =>
    (call.val = Null /\ tplCache[call.id] = Null)

C9_ChargeArrayAnyName ==
  (crGotTemplate /\ \E k \in KeySet : call.tpl = MakeObj({k}, [x \in {k} |-> ChargeList])) =>
    call.val = Num(3)

\* C10: the first call for a template with the field cost: 5 returns 5,
\* whatever the other fields are.
C10_CostFiveAlways ==
  (crGotTemplate /\ Get(call.tpl, "cost") = Num(5)) => call.val = Num(5)

\* C10, amended: it returns 5 when no field yields a positive preferred
\* (one-time) candidate and no field yields a positive candidate below 5.
C10_CostFiveUnlessPreferredOrSmaller ==
  (/\ crGotTemplate
   /\ Get(call.tpl, "cost") = Num(5)
   /\ crPreferred \ {0} = {}
   /\ \A n \in crAll \ {0} : n >= 5) => call.val = Num(5)

\* cost: 5 next to a field that yields a candidate 0
C10_Witness ==
  /\ crGotTemplate
  /\ Get(call.tpl, "cost") = Num(5)
  /\ Len(call.tpl.f) = 2
  /\ 0 \in crAll
  /\ crPreferred \ {0} = {}
  /\ call.val = Num(5)

-----------------------------------------------------------------------------
(* weekWindows: dates, time zones and the generator *)

\* A date is a day number, an instant is a number of hours since 00:00 UTC
\* of day 0. The local time of the process is UTC, or a zone whose clocks go
\* forward or back by one hour at 01:00 UTC of day DstDay.
Zones == {"UTC", "forward", "back"}

OffsetBefore(zone) == CASE zone = "forward" -> 1 [] zone = "back" -> 2 [] OTHER -> 0
OffsetAfter(zone) == CASE zone = "forward" -> 2 [] zone = "back" -> 1 [] OTHER -> 0

\* the instant of the clock change
DstAt == 24 * 10 + 1

\* parseYMD: new Date(Date.UTC(y, m - 1, d))
parseYMD(day) == 24 * day

\* toYMD: d.toISOString().slice(0, 10)
toYMD(t) == t \div 24

\* the offset of local time from UTC at an instant
Offset(zone, t) == IF t < DstAt THEN OffsetBefore(zone) ELSE OffsetAfter(zone)

\* the instant of a local wall-clock time; a time that the clock change
\* skips or repeats is read with the offset before the change
FromLocal(zone, wall) ==
  IF wall - OffsetBefore(zone) < DstAt THEN wall - OffsetBefore(zone)
  ELSE IF wall - OffsetAfter(zone) >= DstAt THEN wall - OffsetAfter(zone)
  ELSE wall - OffsetBefore(zone)

\* addDays: d.setDate(d.getDate() + n), on the local fields
addDays(zone, t, n) == FromLocal(zone, t + Offset(zone, t) + 24 * n)

\* one turn of the while loop: the window yielded and the next start
windowAt(zone, t, endHard) ==
  LET e == addDays(zone, t, 6)
      ec == IF e > endHard THEN endHard ELSE e
  IN [window |-> [start |-> toYMD(t), end |-> toYMD(ec)], next |-> addDays(zone, ec, 1)]

\* Array.from(weekWindows(startYMD, endYMD))
RECURSIVE windowsFrom(_, _, _)
windowsFrom(zone, t, endHard) ==
  IF t <= endHard
    THEN <<windowAt(zone, t, endHard).window>>
           \o windowsFrom(zone, windowAt(zone, t, endHard).next, endHard)
    ELSE <<>>

weekWindows(zone, startYMD, endYMD) == windowsFrom(zone, parseYMD(startYMD), parseYMD(endYMD))

\* The generator is created for a pair of dates, in some time zone.
wwInit ==
  /\ ww \in {[NoWindows EXCEPT !.zone = z, !.start = a, !.end = b] :
               z \in Zones, a \in 1..MaxDay, b \in 1..MaxDay}
  /\ pmUnused
  /\ crUnused
  /\ faUnused
  /\ agUnused
  /\ tcUnused
  /\ rtUnused
  /\ lpUnused
  /\ twUnused
  /\ gwUnused
  /\ fsUnused
  /\ ppUnused

\* the first next(): let s = parseYMD(startYMD)
wwBegin ==
  /\ ww.pc = "idle"
  /\ ww' = [ww EXCEPT !.pc = "loop", !.s = parseYMD(ww.start)]
  /\ UNCHANGED wwOthers

\* while (s <= end) { ...; yield { start, end }; s = addDays(ec, 1) }
wwYield ==
  /\ ww.pc = "loop"
  /\ ww.s <= parseYMD(ww.end)
  /\ ww' = [ww EXCEPT !.out = Append(@, windowAt(ww.zone, ww.s, parseYMD(ww.end)).window),
                      !.s = windowAt(ww.zone, ww.s, parseYMD(ww.end)).next]
  /\ UNCHANGED wwOthers

\* the loop condition fails: the generator is done
wwReturn ==
  /\ ww.pc = "loop"
  /\ ww.s > parseYMD(ww.end)
  /\ ww' = [ww EXCEPT !.pc = "done"]
  /\ UNCHANGED wwOthers

WwNext == wwBegin \/ wwYield \/ wwReturn

SpecWindows == wwInit /\ [][WwNext]_vars

wwDone == ww.pc = "done"

\* C14: for start <= end the windows are contiguous, each of at most 7
\* days, from start to exactly end; a range of 21 days has 3 windows.
C14_WindowsCoverRange ==
  (wwDone /\ ww.start <= ww.end) =>
    /\ Len(ww.out) >= 1
    /\ ww.out[1].start = ww.start
    /\ ww.out[Len(ww.out)].end = ww.end
    /\ \A j \in 1..Len(ww.out) :
         /\ ww.out[j].start <= ww.out[j].end
         /\ ww.out[j].end - ww.out[j].start <= 6
         /\ j > 1 => ww.out[j].start = ww.out[j - 1].end + 1
    /\ ww.end - ww.start = 20 => Len(ww.out) = 3

-----------------------------------------------------------------------------
(* fetchAllData: subscribers -> latest package -> template cost -> usage *)

\* The subscribers of the upstream account: with a package, with a package
\* fee, without a subscriber id, and with a template id on the subscriber.
SubA == Obj(<< <<"iccid", Str("a")>>, <<"subscriberId", Num(1)>> >>)
SubB == Obj(<< <<"iccid", Str("b")>>, <<"subscriberId", Num(2)>> >>)
SubC == Obj(<< <<"iccid", Str("c")>>, <<"prepaidpackagetemplateid", Num(1)>> >>)
SubD == Obj(<< <<"iccid", Str("d")>>, <<"id", Num(3)>>, <<"templateId", Num(3)>> >>)

Subscribers == {SubA, SubB, SubC, SubD}

Listings == UNION {[1..n -> Subscribers] : n \in 0..MaxSubs}

\* the templates of the upstream catalog during a fetch
FetchCatalog ==
  (1 :> Obj(<< <<"cost", Num(0)>> >>)) @@ (2 :> Obj(<< <<"cost", Num(5)>> >>))
    @@ (3 :> Obj(<< <<"cost", Num(-1)>> >>))

\* What callOCS returns for { listSubscriberPrepaidPackages: { subscriberId } }.
PackagesOf(sid) ==
  CASE sid = Num(1) ->
         Obj(<< <<"listSubscriberPrepaidPackagesRsp", Obj(<< <<"packages", Arr(<<
           Obj(<< <<"tsactivationutc", Num(2)>>, <<"prepaidpackagetemplateid", Num(1)>>,
                  <<"tsexpirationutc", Num(9)>>, <<"pckdatabyte", Num(100)>>,
                  <<"useddatabyte", Num(9)>> >>),
           Obj(<< <<"tsactivationutc", Num(1)>>, <<"prepaidpackagetemplateid", Num(2)>>,
                  <<"cost", Num(4)>> >>) >>)>> >>)>> >>)
    [] sid = Num(2) ->
         Obj(<< <<"packages", Arr(<<
           Obj(<< <<"tsactivationutc", Num(1)>>, <<"activationFee", Num(4)>>,
                  <<"packageDataByte", Num(100)>>,
                  <<"template", Obj(<< <<"templateId", Num(2)>> >>)>> >>) >>)>> >>)
    [] sid = Num(3) ->
         Obj(<< <<"packages", Arr(<<
           Obj(<< <<"tsactivationutc", Num(30)>>, <<"price", Obj(<< <<"value", Num(4)>> >>)>>,
                  <<"prepaidpackagetemplateid", Num(2)>> >>) >>)>> >>)
    [] OTHER -> Obj(<<>>)

\* What callOCS returns for one subscriberUsageOverPeriod window.
UsageAnswers ==
  { Threw, Obj(<<>>),
    Obj(<< <<"subscriberUsageOverPeriod",
             Obj(<< <<"total", Obj(<< <<"quantityPerType", Obj(<< <<"33", Num(4)>> >>)>> >>)>> >>)>> >>) }

\* Number(a) || Number(b) || Number(c) || null, then Number.isFinite(x) ? x : null
TemplateIdOf(o) ==
  LET x == OrElse(OrElse(OrElse(ToNumber(Get(o, "prepaidpackagetemplateid")),
                                ToNumber(Get(o, "prepaidPackageTemplateId"))),
                         ToNumber(Get(o, "templateId"))), Null)
  IN IF IsFinite(x) THEN x ELSE Null

\* the row that subs.map builds from one subscriber
buildRow(sub) ==
  [ iccid |-> Coalesce(Coalesce(Coalesce(Get(First(Get(sub, "imsiList")), "iccid"),
                                         Get(Get(sub, "sim"), "iccid")), Get(sub, "iccid")), Null),
    prepaidpackagetemplateid |-> TemplateIdOf(sub),
    tsactivationutc |-> Null,
    tsexpirationutc |-> Null,
    pckdatabyte |-> Null,
    useddatabyte |-> Null,
    subscriberUsageOverPeriod |-> Null,
    subscriberOneTimeCost |-> Null,
    sid |-> Coalesce(Coalesce(Get(sub, "subscriberId"), Get(sub, "id")), Null),
    packageOneTimeCost |-> Undef,
    failed |-> {},
    tpl |-> Null,
    resolved |-> Undef,
    usageTotal |-> Undef ]

\* a map that drops the subscribers without an id
buildRows_OnlyWithId(subs) ==
  LET withId == SelectSeq(subs, LAMBDA sub : Truthy(buildRow(sub).sid))
  IN [j \in 1..Len(withId) |-> buildRow(withId[j])]

\* const rows = subs.map(...)
buildRows(subs) == [j \in 1..Len(subs) |-> buildRow(subs[j])]

\* new Date(a?.tsactivationutc || 0), as a number
ActivationTime(pkg) == OrElse(Get(pkg, "tsactivationutc"), Num(0)).n

\* the comparator of pkgs.sort: new Date(a...) - new Date(b...)
compareActivation(a, b) == ActivationTime(a) - ActivationTime(b)

\* an insertion that puts x before the elements it compares equal to
insertByActivation_BeforeEqual(sorted, x) ==
  LET k == Cardinality({j \in 1..Len(sorted) : compareActivation(sorted[j], x) < 0})
  IN SubSeq(sorted, 1, k) \o <<x>> \o SubSeq(sorted, k + 1, Len(sorted))

\* Array.prototype.sort is stable: x goes after the elements that are not
\* greater than it
insertByActivation(sorted, x) ==
  LET k == Cardinality({j \in 1..Len(sorted) : compareActivation(sorted[j], x) <= 0})
  IN SubSeq(sorted, 1, k) \o <<x>> \o SubSeq(sorted, k + 1, Len(sorted))

\* pkgs.sort((a,b) => new Date(a?.tsactivationutc || 0) - new Date(b?.tsactivationutc || 0))
RECURSIVE sortByActivation(_)
sortByActivation(pkgs) ==
  IF Len(pkgs) = 0 THEN <<>>
  ELSE insertByActivation(sortByActivation(SubSeq(pkgs, 1, Len(pkgs) - 1)), pkgs[Len(pkgs)])

\* pkgs.sort(by activation time); p = pkgs[pkgs.length - 1]
LatestOf(pkgs) == sortByActivation(pkgs)[Len(pkgs)]

\* typeof v === "number" ? v : null
NumberOrNull(v) == IF v.t \in {"num", "nan"} THEN v ELSE Null

\* getLatestPackage, from the answer of listSubscriberPrepaidPackages
getLatestPackage(r) ==
  LET pkgs == OrElse(OrElse(OrElse(Get(Get(r, "listSubscriberPrepaidPackagesRsp"), "packages"),
                                   Get(Get(r, "listSubscriberPrepaidPackages"), "packages")),
                            Get(r, "packages")), Arr(<<>>))
  IN IF pkgs.t # "arr" \/ Len(pkgs.a) = 0 THEN Null
     ELSE LET pk == LatestOf(pkgs.a)
              tpl == OrElse(OrElse(OrElse(Get(pk, "packageTemplate"), Get(pk, "template")), pk), Obj(<<>>))
          IN [ prepaidpackagetemplateid |-> TemplateIdOf(tpl),
               tsactivationutc |-> OrElse(Get(pk, "tsactivationutc"), Null),
               tsexpirationutc |-> OrElse(Get(pk, "tsexpirationutc"), Null),
               pckdatabyte |-> Coalesce(Coalesce(Get(pk, "pckdatabyte"), Get(pk, "packageDataByte")), Null),
               useddatabyte |-> Coalesce(Coalesce(Get(pk, "useddatabyte"), Get(pk, "usedDataByte")), Null),
               packageOneTimeCost |->
                 Coalesce(Coalesce(Coalesce(Coalesce(NumberOrNull(Get(pk, "cost")),
                   NumberOrNull(Get(pk, "oneTimePrice"))), NumberOrNull(Get(pk, "activationFee"))),
                   NumberOrNull(Get(Get(pk, "price"), "value"))), Null) ]

\* a package step that copies the template id and the fee only
withPackage_TemplateOnly(row, pkg) ==
  IF pkg = Null THEN row
  ELSE [row EXCEPT
          !.prepaidpackagetemplateid = IF Nullish(@) THEN pkg.prepaidpackagetemplateid ELSE @,
          !.packageOneTimeCost = Coalesce(pkg.packageOneTimeCost, Null)]

\* the row after the package step: if (pkg) { ... }
withPackage(row, pkg) ==
  IF pkg = Null THEN row
  ELSE [row EXCEPT
          !.prepaidpackagetemplateid = IF Nullish(@) THEN pkg.prepaidpackagetemplateid ELSE @,
          !.tsactivationutc = pkg.tsactivationutc,
          !.tsexpirationutc = pkg.tsexpirationutc,
          !.pckdatabyte = pkg.pckdatabyte,
          !.useddatabyte = pkg.useddatabyte,
          !.packageOneTimeCost = Coalesce(pkg.packageOneTimeCost, Null)]

\* if (cost != null && cost > 0) r.subscriberOneTimeCost = cost
withCost(row, cost) ==
  IF ~Nullish(cost) /\ cost.t = "num" /\ cost.n > 0
    THEN [row EXCEPT !.subscriberOneTimeCost = cost]
    ELSE row

\* the fallback to the one-time fee of the package
withPackageFee(row) ==
  IF (Nullish(row.subscriberOneTimeCost) \/ row.subscriberOneTimeCost = Num(0))
       /\ ~Nullish(row.packageOneTimeCost)
    THEN [row EXCEPT !.subscriberOneTimeCost = row.packageOneTimeCost]
    ELSE row

\* getUsageOverWindow: bytes = typeof qty["33"] === "number" ? qty["33"] : null
BytesOf(r) ==
  LET total == OrElse(OrElse(Get(Get(r, "subscriberUsageOverPeriod"), "total"),
                             Get(Get(r, "subscriberUsageOverPeriodRsp"), "total")), Obj(<<>>))
      qty == OrElse(Get(total, "quantityPerType"), Obj(<<>>))
  IN NumberOrNull(Get(qty, "33"))

\* getAggregatedUsage: the sum of the finite bytes of the windows
RECURSIVE SumBytes(_, _)
SumBytes(answers, j) ==
  IF j > Len(answers) THEN 0
  ELSE (IF IsFinite(BytesOf(answers[j])) THEN BytesOf(answers[j]).n ELSE 0) + SumBytes(answers, j + 1)

\* fetchUsageWindow: the data bytes (type 33) of one window, 0 if absent
fetchUsageWindow(r) ==
  LET total == OrElse(OrElse(Get(Get(r, "subscriberUsageOverPeriod"), "total"),
                             Get(Get(r, "subscriberUsageOverPeriodRsp"), "total")), Obj(<<>>))
      qpt == OrElse(Get(total, "quantityPerType"), Obj(<<>>))
      raw == Get(qpt, "33")
      bytes == IF IsFinite(raw) THEN raw ELSE ToNumber(raw)
  IN IF IsFinite(bytes) THEN bytes.n ELSE 0

\* windows that always include the one starting at the start date
usageWindows_AtLeastOne(row) ==
  LET startDay == IF Truthy(row.tsactivationutc) THEN row.tsactivationutc.n ELSE Today - 27
  IN <<[start |-> startDay, end |-> Today]>>

\* getUsageTotal: the windows from the activation of the package, or from
\* 27 days ago, to today (the process runs in UTC, at noon)
usageWindows(row) ==
  LET now == parseYMD(Today) + 12
      start == IF Truthy(row.tsactivationutc) THEN parseYMD(row.tsactivationutc.n)
               ELSE addDays("UTC", now, -27)
  IN weekWindows("UTC", toYMD(start), toYMD(now))

\* the row after getUsageTotal returned total
withUsage(row, total) ==
  [row EXCEPT !.usageTotal = Num(total),
              !.subscriberUsageOverPeriod =
                 IF total = 0 /\ IsFinite(row.useddatabyte) THEN row.useddatabyte ELSE Num(total)]

\* the row after getUsageTotal threw: catch { ... r.useddatabyte }
withUsageFailure(row) ==
  [row EXCEPT !.failed = @ \cup {"usage"},
              !.subscriberUsageOverPeriod = IF IsFinite(row.useddatabyte) THEN row.useddatabyte ELSE @]

\* delete r._sid; delete r._packageOneTimeCost
Deleted == [t |-> "deleted"]
withoutInternals(row) == [row EXCEPT !.sid = Deleted, !.packageOneTimeCost = Deleted]

\* a row loop with the usage step outside any try
faCatches_NotUsage(step) == step \in {"package", "cost"}

\* the steps of a row that run inside try { ... } catch {}
faCatches(step) == step \in {"package", "cost", "usage"}

\* r?.listSubscriberRsp?.subscriber || r?.listSubscriber?.subscriberList || r?.subscriberList || []
SubscribersOf(r) ==
  OrElse(OrElse(OrElse(Get(Get(r, "listSubscriberRsp"), "subscriber"),
                       Get(Get(r, "listSubscriber"), "subscriberList")),
                Get(r, "subscriberList")), Arr(<<>>))

\* What callOCS can return for { listSubscriber: { accountId } }.
ListingAnswers ==
  {Threw, Obj(<<>>)}
  \cup {Obj(<< <<"listSubscriberRsp", Obj(<< <<"subscriber", Arr(subs)>> >>)>> >>) : subs \in Listings}
  \cup { Obj(<< <<"listSubscriber", Obj(<< <<"subscriberList", Arr(<<SubA>>)>> >>)>> >>),
         Obj(<< <<"subscriberList", Arr(<<SubB>>)>> >>),
         Obj(<< <<"listSubscriberRsp", Obj(<< <<"subscriber", Arr(<<SubB>>)>> >>)>>,
                <<"subscriberList", Arr(<<SubA>>)>> >>) }
  \cup { Obj(<< <<"listSubscriberRsp", Obj(<< <<"subscriber", first>> >>)>>,
                <<"subscriberList", Arr(<<SubA>>)>> >>) : first \in {Null, Str("none")} }

\* The states fetchAllData starts from: an environment, the upstream
\* catalog and an empty template cache.
faInit ==
  /\ env \in [base : BOOLEAN, token : BOOLEAN, accountId : {0, 7}]
  /\ fa = NoFetch
  /\ listing = <<>>
  /\ rows = <<>>
  /\ catalog = FetchCatalog
  /\ tplCache = <<>>
  /\ call = NoCall
  /\ pmUnused
  /\ wwUnused
  /\ agUnused
  /\ tcUnused
  /\ rtUnused
  /\ lpUnused
  /\ twUnused
  /\ gwUnused
  /\ fsUnused
  /\ ppUnused

faFail(cause) ==
  /\ fa' = [fa EXCEPT !.pc = "failed", !.cause = cause]
  /\ UNCHANGED <<env, listing, rows>>

\* the first row from index from on that has a subscriber id (0: none)
NextWithId(rs, from) ==
  LET ks == {k \in from..Len(rs) : Truthy(rs[k].sid)}
  IN IF ks = {} THEN 0 ELSE CHOOSE k \in ks : \A h \in ks : k <= h

\* for (const r of rows) { if (!r._sid) continue; pkg = await getLatestPackage(r._sid) ...
\* up to the next await, or to return rows
faEnterFrom(f, rs, from) ==
  IF NextWithId(rs, from) = 0
    THEN [f EXCEPT !.pc = "returned", !.k = 0, !.w = 0, !.total = 0]
    ELSE [f EXCEPT !.pc = "package", !.k = NextWithId(rs, from), !.w = 0, !.total = 0]

faEnter(rs, from) ==
  /\ rows' = rs
  /\ fa' = faEnterFrom(fa, rs, from)

\* fetchAllData(accountIdParam) up to the listing request: the accountId
\* check and the checks of callOCS
fetchAllData(accountIdParam) ==
  /\ fa.pc = "idle"
  /\ LET accountId == ToNumber(OrElse(OrElse(accountIdParam, Num(env.accountId)), Num(0)))
     IN IF ~Truthy(accountId) \/ ~env.base \/ ~env.token
          THEN faFail("config")
          ELSE /\ fa' = [fa EXCEPT !.pc = "list", !.accountId = accountId.n]
               /\ UNCHANGED <<env, listing, rows>>
  /\ UNCHANGED <<crVars, faOthers>>

\* the listing request answers (or throws): the rows are built
faListAnswer(r) ==
  /\ fa.pc = "list"
  /\ r \in ListingAnswers
  /\ IF r = Threw
       THEN faFail("list")
       ELSE IF SubscribersOf(r).t # "arr"
         THEN \* subs.map is not a function
              /\ fa' = [fa EXCEPT !.pc = "failed", !.cause = "list", !.resp = r]
              /\ UNCHANGED <<env, listing, rows>>
         ELSE /\ listing' = SubscribersOf(r).a
              /\ rows' = buildRows(SubscribersOf(r).a)
              /\ fa' = faEnterFrom([fa EXCEPT !.resp = r], buildRows(SubscribersOf(r).a), 1)
              /\ UNCHANGED env
  /\ UNCHANGED <<crVars, faOthers>>

\* What callOCS can return for the package request in flight.
PackageAnswers ==
  IF fa.pc = "package" THEN {Threw, PackagesOf(rows[fa.k].sid)} ELSE {}

\* the usage step of row fa.k starts, with the internal fields of the row
\* deleted before its first window is requested
faBeginUsage_DeleteFirst(row) ==
  IF usageWindows(row) = <<>>
    THEN faEnter([rows EXCEPT ![fa.k] = withoutInternals(withUsage(row, 0))], fa.k + 1)
    ELSE /\ rows' = [rows EXCEPT ![fa.k] = withoutInternals(row)]
         /\ fa' = [fa EXCEPT !.pc = "usage", !.w = 1, !.total = 0]

\* the usage step of row fa.k starts: the first window is requested, or,
\* with no window, the total is 0 and the loop goes on
faBeginUsage(row) ==
  IF usageWindows(row) = <<>>
    THEN faEnter([rows EXCEPT ![fa.k] = withoutInternals(withUsage(row, 0))], fa.k + 1)
    ELSE /\ rows' = [rows EXCEPT ![fa.k] = row]
         /\ fa' = [fa EXCEPT !.pc = "usage", !.w = 1, !.total = 0]

\* the package request of the row answers (or throws); the cost step starts
faPackageAnswer(r) ==
  /\ fa.pc = "package"
  /\ r \in PackageAnswers
  /\ IF r = Threw /\ ~faCatches("package")
       THEN faFail("package") /\ UNCHANGED crVars
       ELSE LET row == IF r = Threw THEN [rows[fa.k] EXCEPT !.failed = @ \cup {"package"}]
                       ELSE withPackage(rows[fa.k], getLatestPackage(r))
            IN /\ UNCHANGED <<env, listing>>
               /\ IF ~Nullish(row.prepaidpackagetemplateid)
                    THEN /\ getTemplateCost(row.prepaidpackagetemplateid.n)
                         /\ rows' = [rows EXCEPT ![fa.k] = row]
                         /\ fa' = [fa EXCEPT !.pc = "cost"]
                    ELSE /\ faBeginUsage(withPackageFee(row))
                         /\ UNCHANGED crVars
  /\ UNCHANGED faOthers

\* getTemplateCost has returned: the cost, the package fee fallback, and
\* the start of the usage step
faCostReturn ==
  /\ fa.pc = "cost"
  /\ call.pc = "done"
  /\ LET row == [rows[fa.k] EXCEPT
                   !.failed = IF Len(call.sent) = 2 /\ ~Truthy(call.tpl) THEN @ \cup {"cost"} ELSE @,
                   !.tpl = call.tpl,
                   !.resolved = call.val]
     IN faBeginUsage(withPackageFee(withCost(row, call.val)))
  /\ UNCHANGED <<env, listing, crVars, faOthers>>

\* one usage window of the row answers (or throws): the next window is
\* requested, or the total is stored, the internal fields are deleted and
\* the loop goes on to the next row
faUsageAnswer(r) ==
  /\ fa.pc = "usage"
  /\ r \in UsageAnswers
  /\ IF r = Threw
       THEN IF faCatches("usage")
              THEN /\ faEnter([rows EXCEPT ![fa.k] = withoutInternals(withUsageFailure(@))], fa.k + 1)
                   /\ UNCHANGED <<env, listing>>
              ELSE faFail("usage")
       ELSE /\ UNCHANGED <<env, listing>>
            /\ IF fa.w < Len(usageWindows(rows[fa.k]))
                 THEN /\ fa' = [fa EXCEPT !.w = @ + 1, !.total = @ + fetchUsageWindow(r)]
                      /\ rows' = rows
                 ELSE faEnter([rows EXCEPT ![fa.k] =
                                 withoutInternals(withUsage(@, fa.total + fetchUsageWindow(r)))],
                              fa.k + 1)
  /\ UNCHANGED <<crVars, faOthers>>

FaNext ==
  \/ \E accountIdParam \in {Undef, Num(7)} : fetchAllData(accountIdParam)
  \/ \E r \in ListingAnswers : faListAnswer(r)
  \/ \E r \in PackageAnswers : faPackageAnswer(r)
  \/ \E r \in ListResponses(call.id) : crListAnswer(r) /\ UNCHANGED crOthers
  \/ \E r \in GetResponses(call.id) : crGetAnswer(r) /\ UNCHANGED crOthers
  \/ faCostReturn
  \/ \E r \in UsageAnswers : faUsageAnswer(r)

SpecFetch == faInit /\ [][FaNext]_vars

faReturned == fa.pc = "returned"

AllSteps == {"package", "cost", "usage"}

\* C1: the returned rows are one per listed subscriber, in listing order,
\* also when every step of a subscriber failed, whose fields are then null.
C1_OneRowPerSubscriber ==
  faReturned =>
    /\ Len(rows) = Len(listing)
    /\ \A j \in 1..Len(listing) :
         /\ rows[j].iccid = Get(listing[j], "iccid")
         /\ rows[j].failed = AllSteps =>
              /\ rows[j].tsactivationutc = Null
              /\ rows[j].subscriberOneTimeCost = Null
              /\ rows[j].subscriberUsageOverPeriod = Null

\* two different subscribers, every step of one of them failed
C1_Witness ==
  /\ faReturned
  /\ Len(rows) = 2
  /\ listing[1] # listing[2]
  /\ \E j \in 1..2 : rows[j].failed = AllSteps

PackageFeeOf(sub) ==
  LET pkg == getLatestPackage(PackagesOf(buildRow(sub).sid))
  IN IF pkg = Null THEN Null ELSE pkg.packageOneTimeCost

\* C7: a subscriber whose template is { cost: 0 } and whose package has no
\* one-time fee gets subscriberOneTimeCost 0 in its row.
C7_ZeroCostInRow ==
  faReturned =>
    \A j \in 1..Len(rows) :
      (rows[j].tpl = Obj(<< <<"cost", Num(0)>> >>) /\ PackageFeeOf(listing[j]) = Null) =>
        rows[j].subscriberOneTimeCost = Num(0)

\* the package answer of a row brought a one-time fee
FeePresent(j) == "package" \notin rows[j].failed /\ PackageFeeOf(listing[j]) # Null

\* C11: a row carries the resolved template cost whenever that cost is
\* neither null nor zero; the fee of the package is used only when the
\* resolved cost is null or zero and the package has a fee.
C11_TemplateCostFirst ==
  faReturned =>
    \A j \in 1..Len(rows) :
      /\ (rows[j].resolved.t = "num" /\ rows[j].resolved # Num(0)) =>
           rows[j].subscriberOneTimeCost = rows[j].resolved
      /\ (rows[j].resolved \in {Undef, Null, Num(0)} /\ FeePresent(j)) =>
           rows[j].subscriberOneTimeCost = PackageFeeOf(listing[j])

\* the template id of the latest package of a subscriber (null: none)
PackageTemplateOf(sub) ==
  LET sid == Coalesce(Coalesce(Get(sub, "subscriberId"), Get(sub, "id")), Null)
      pkg == getLatestPackage(PackagesOf(sid))
  IN IF pkg = Null THEN Null ELSE pkg.prepaidpackagetemplateid

\* C32: an enriched row whose package request was answered with a package
\* that names a template carries that template id, and the template its
\* cost was resolved from is that template of the catalog, whatever template
\* the subscriber record hints at.
C32_PackageTemplateFirst ==
  faReturned =>
    \A j \in 1..Len(rows) :
      (/\ rows[j].sid = Deleted
       /\ "package" \notin rows[j].failed
       /\ PackageTemplateOf(listing[j]) # Null) =>
        /\ rows[j].prepaidpackagetemplateid = PackageTemplateOf(listing[j])
        /\ rows[j].tpl.t = "obj" => rows[j].tpl = catalog[PackageTemplateOf(listing[j]).n]

\* C34: no returned row has a _sid or a _pkgOneTime property: each was
\* deleted or, for the fee, never set.
C34_NoInternalFields ==
  faReturned =>
    \A j \in 1..Len(rows) :
      /\ rows[j].sid = Deleted
      /\ rows[j].packageOneTimeCost \in {Deleted, Undef}

\* every package field of row j is null
NoPackageFields(j) ==
  /\ rows[j].tsactivationutc = Null /\ rows[j].tsexpirationutc = Null
  /\ rows[j].pckdatabyte = Null /\ rows[j].useddatabyte = Null

\* C12: a row whose package lookup failed has a null template id, a null
\* cost and null package fields.
C12_PackageFailureAllNull ==
  faReturned =>
    \A j \in 1..Len(rows) :
      "package" \in rows[j].failed =>
        /\ rows[j].prepaidpackagetemplateid = Null
        /\ rows[j].subscriberOneTimeCost = Null
        /\ NoPackageFields(j)

\* C12, amended: its package fields are null, and its template id and cost
\* are null when the listing gave the subscriber no template id; a row whose
\* lookup brought a package has the fields of that package.
C12_PackageFailureNullUnlessListed ==
  faReturned =>
    \A j \in 1..Len(rows) :
      /\ "package" \in rows[j].failed =>
           /\ NoPackageFields(j)
           /\ TemplateIdOf(listing[j]) = Null =>
                /\ rows[j].prepaidpackagetemplateid = Null
                /\ rows[j].subscriberOneTimeCost = Null
      /\ (rows[j].sid = Deleted /\ "package" \notin rows[j].failed) =>
           LET pkg == getLatestPackage(PackagesOf(buildRow(listing[j]).sid))
           IN /\ rows[j].tsactivationutc = pkg.tsactivationutc
              /\ rows[j].pckdatabyte = pkg.pckdatabyte
              /\ rows[j].prepaidpackagetemplateid # Null

\* two subscribers: the lookup of the first failed, that of the second
\* brought a package and a cost
C12_Witness ==
  /\ faReturned
  /\ Len(rows) = 2
  /\ "package" \in rows[1].failed
  /\ rows[1].prepaidpackagetemplateid = Null
  /\ rows[2].failed = {}
  /\ rows[2].tsactivationutc # Null
  /\ rows[2].subscriberOneTimeCost # Null

\* C13: a row whose usage aggregation failed is kept and its usage total
\* is null.
C13_UsageFailureNull ==
  faReturned =>
    /\ Len(rows) = Len(listing)
    /\ \A j \in 1..Len(rows) :
         "usage" \in rows[j].failed => rows[j].subscriberUsageOverPeriod = Null

\* the package of the row was activated after today
StartsAfterToday(row) == Truthy(row.tsactivationutc) /\ row.tsactivationutc.n > Today

\* C15: a usage range that starts after its end has no window: no usage
\* request is sent for it, the total is 0 and nothing fails.
C15_EmptyRangeZeroTotal ==
  /\ fa.pc = "usage" => ~StartsAfterToday(rows[fa.k])
  /\ \A j \in 1..Len(rows) :
       (rows[j].sid = Deleted /\ StartsAfterToday(rows[j])) =>
         /\ rows[j].usageTotal = Num(0)
         /\ "usage" \notin rows[j].failed
         /\ fa.pc # "failed"

\* a returned row of a package activated after today, next to a row with a
\* usage total from its windows
C15_Witness ==
  /\ faReturned
  /\ \E j, h \in 1..Len(rows) :
       /\ StartsAfterToday(rows[j]) /\ rows[j].usageTotal = Num(0)
       /\ rows[h].usageTotal \notin {Undef, Num(0)}

\* a non-null array or object
IsArrayOrObject(v) == v.t \in {"arr", "obj"}

\* the three paths of the subscriber list, in the order they are tried
SubscriberPaths(r) ==
  << Get(Get(r, "listSubscriberRsp"), "subscriber"),
     Get(Get(r, "listSubscriber"), "subscriberList"),
     Get(r, "subscriberList") >>

\* the value at the first path that holds a non-null array or object, the
\* empty list when there is none
FirstArrayOrObject(paths) ==
  LET hits == {j \in 1..Len(paths) : IsArrayOrObject(paths[j])}
  IN IF hits = {} THEN Arr(<<>>) ELSE paths[CHOOSE j \in hits : \A h \in hits : j <= h]

\* C23: once the listing request was answered, the subscribers fetchAllData
\* works on are the value at the first of the three paths that holds a
\* non-null array or object, and no subscribers when no path holds one; the
\* call does not fail on the shape of the answer.
C23_FirstArrayOrObjectPath ==
  fa.resp # Undef =>
    /\ fa.pc # "failed"
    /\ Arr(listing) = FirstArrayOrObject(SubscriberPaths(fa.resp))

\* a step of some row is waiting for its answer
faInRow == fa.pc \in {"package", "cost", "usage"}

\* C30, in every state: no row exists before the listing request was
\* answered; while a step of row fa.k waits, the rows before it are final or
\* have no subscriber id and row fa.k and the rows after it are not final;
\* a template request is outstanding only during the cost step.
C30_StepState ==
  /\ fa.pc \in {"idle", "list"} => rows = <<>>
  /\ faInRow =>
       /\ fa.resp # Undef
       /\ fa.k \in 1..Len(rows)
       /\ \A j \in 1..Len(rows) :
            IF j < fa.k THEN rows[j].sid = Deleted \/ ~Truthy(rows[j].sid)
            ELSE rows[j].sid # Deleted
  /\ call.pc \in {"list", "get"} => fa.pc = "cost"

\* C30, in every step: the package step of a row starts when the listing
\* request was answered or the row before it became final; its cost step
\* starts when its package request was answered; its usage step starts
\* when the cost lookup returned, or when the package request was answered
\* and the row has no template id; a row becomes final in a step that ends
\* the last of its steps and leaves the row.
C30_StepAction ==
  /\ (fa'.pc = "package" /\ (fa.pc # "package" \/ fa'.k # fa.k)) =>
       \/ fa.pc = "list"
       \/ faInRow /\ fa'.k > fa.k /\ rows'[fa.k].sid = Deleted
  /\ (fa'.pc = "cost" /\ fa.pc # "cost") => (fa.pc = "package" /\ fa'.k = fa.k)
  /\ (fa'.pc = "usage" /\ fa.pc # "usage") =>
       /\ fa'.k = fa.k
       /\ \/ fa.pc = "cost" /\ call.pc = "done"
          \/ fa.pc = "package" /\ Nullish(rows'[fa.k].prepaidpackagetemplateid)
  /\ \A j \in (DOMAIN rows) \cap (DOMAIN rows') :
       (rows'[j].sid = Deleted /\ rows[j].sid # Deleted) =>
         /\ faInRow /\ j = fa.k /\ fa'.k # j
         /\ fa.pc = "cost" => call.pc = "done"
         /\ fa.pc = "package" => Nullish(rows'[j].prepaidpackagetemplateid)

\* C30: the listing request completes before any request of a subscriber;
\* for each subscriber the package request completes before the cost
\* lookup, which completes before the usage-window requests; a row is final
\* only after its steps ended.
C30_StepOrder == []C30_StepState /\ [][C30_StepAction]_vars

\* The call returned a final row whose package request, template lookup and
\* usage windows were all answered.
C30_Witness ==
  /\ fa.pc = "returned"
  /\ \E j \in 1..Len(rows) :
       /\ rows[j].sid = Deleted
       /\ rows[j].failed = {}
       /\ rows[j].tpl.t = "obj"
       /\ rows[j].usageTotal.t = "num" /\ rows[j].usageTotal.n > 0

-----------------------------------------------------------------------------
(* pMap *)

Empty == [t |-> "empty"]

PmItems == {10, 20}

\* What fn(list[idx], idx) resolves to when it does not throw.
FnResult(item, idx) == [of |-> item, at |-> idx]

\* out[idx] = await fn(list[idx], idx), written in completion order
pMapStore_Push(o, idx, v) ==
  LET free == {j \in DOMAIN o : o[j] = Empty}
      first == CHOOSE j \in free : \A k \in free : j <= k
  IN [o EXCEPT ![first] = v]

\* out[idx] = await fn(list[idx], idx)
pMapStore(o, idx, v) == [o EXCEPT ![idx] = v]

\* Array.from({ length: list.length }, ...): one worker per item
pMapWorkerCount_PerItem(k, n) == n

\* Array.from({ length: Math.min(concurrency, list.length) }, ...)
pMapWorkerCount(k, n) == Min2(k, n)

\* The inputs of one pMap call.
pMapInit ==
  /\ list \in UNION {[1..n -> PmItems] : n \in 0..MaxItems}
  /\ concurrency \in 1..MaxConc
  /\ i = 0
  /\ out = <<>>
  /\ workers = <<>>
  /\ pmap = [st |-> "notcalled", value |-> <<>>]
  /\ order = <<>>
  /\ crUnused
  /\ faUnused
  /\ wwUnused
  /\ agUnused
  /\ tcUnused
  /\ rtUnused
  /\ lpUnused
  /\ twUnused
  /\ gwUnused
  /\ fsUnused
  /\ ppUnused

\* The synchronous part of a call with `const idx = i` and the increment
\* left for after the await: every worker starts with the first index.
pMapCall_SameStart ==
  /\ pmap.st = "notcalled"
  /\ IF Len(list) = 0
       THEN /\ pmap' = [st |-> "resolved", value |-> <<>>]
            /\ UNCHANGED <<i, out, workers>>
       ELSE LET n == pMapWorkerCount(concurrency, Len(list))
            IN /\ out' = [j \in 1..Len(list) |-> Empty]
               /\ workers' = [w \in 1..n |-> [st |-> "await", idx |-> 1]]
               /\ i' = 1
               /\ pmap' = [st |-> "pending", value |-> <<>>]
  /\ UNCHANGED <<list, concurrency, order>>

\* The synchronous part of a call: the guard, the allocation of out, and every
\* worker running up to its first await (each takes one index).
pMapCall ==
  /\ pmap.st = "notcalled"
  /\ IF Len(list) = 0
       THEN /\ pmap' = [st |-> "resolved", value |-> <<>>]
            /\ UNCHANGED <<i, out, workers>>
       ELSE LET n == pMapWorkerCount(concurrency, Len(list))
            IN /\ out' = [j \in 1..Len(list) |-> Empty]
               /\ workers' = [w \in 1..n |-> [st |-> "await", idx |-> w]]
               /\ i' = n
               /\ pmap' = [st |-> "pending", value |-> <<>>]
  /\ UNCHANGED <<list, concurrency, order>>

\* Promise.all over the worker promises: resolves once every worker returned.
pMapSettle(ws, o) ==
  IF pmap.st = "pending" /\ \A w \in DOMAIN ws : ws[w].st = "done"
    THEN [st |-> "resolved", value |-> o]
    ELSE pmap

\* fn resolves for worker w: the store, then the next turn of the while loop.
pMapFnReturn(w) ==
  /\ w \in DOMAIN workers
  /\ workers[w].st = "await"
  /\ LET idx == workers[w].idx
         o == pMapStore(out, idx, FnResult(list[idx], idx))
         ws == IF i < Len(list)
                 THEN [workers EXCEPT ![w] = [st |-> "await", idx |-> i + 1]]
                 ELSE [workers EXCEPT ![w] = [st |-> "done", idx |-> idx]]
     IN /\ out' = o
        /\ workers' = ws
        /\ i' = IF i < Len(list) THEN i + 1 ELSE i
        /\ pmap' = pMapSettle(ws, o)
        /\ order' = Append(order, idx)
  /\ UNCHANGED <<list, concurrency>>

\* fn throws for worker w: the worker's promise rejects, and with it
\* Promise.all and the pMap call; the other workers keep running.
pMapFnThrow(w) ==
  /\ w \in DOMAIN workers
  /\ workers[w].st = "await"
  /\ workers' = [workers EXCEPT ![w].st = "thrown"]
  /\ pmap' = IF pmap.st = "pending" THEN [st |-> "rejected", value |-> <<>>] ELSE pmap
  /\ order' = Append(order, workers[w].idx)
  /\ UNCHANGED <<list, concurrency, i, out>>

PmNext ==
  \/ pMapCall /\ UNCHANGED pmOthers
  \/ \E w \in 1..MaxConc : pMapFnReturn(w) /\ UNCHANGED pmOthers
  \/ \E w \in 1..MaxConc : pMapFnThrow(w) /\ UNCHANGED pmOthers

SpecPMap == pMapInit /\ [][PmNext]_vars

PmThrown == {workers[w].idx : w \in {v \in DOMAIN workers : workers[v].st = "thrown"}}
PmQuiet == pmap.st # "notcalled" /\ \A w \in DOMAIN workers : workers[w].st # "await"

\* C2: whenever a pMap call resolves, the returned array has the length of the
\* input list and its element j is the result of fn(list[j], j), for every
\* concurrency and every completion order of the fn calls.
C2_OrderPreserved ==
  pmap.st = "resolved" =>
    /\ Len(pmap.value) = Len(list)
    /\ \A j \in 1..Len(list) : pmap.value[j] = FnResult(list[j], j)

\* A call with fewer workers than items has resolved although the fn calls
\* completed out of input order.
C2_Witness ==
  /\ pmap.st = "resolved"
  /\ concurrency < Len(list)
  /\ \E a, b \in 1..Len(order) : a < b /\ order[a] > order[b]

PmInFlight == {w \in DOMAIN workers : workers[w].st = "await"}

\* C28: a pMap call starts min(concurrency, list.length) workers, no two fn
\* calls in flight are for the same index, and the number of fn calls in
\* flight never exceeds concurrency.
C28_InFlightBounded ==
  /\ pmap.st # "notcalled" =>
       Len(workers) = (IF concurrency <= Len(list) THEN concurrency ELSE Len(list))
  /\ Cardinality(PmInFlight) <= concurrency
  /\ \A v, w \in PmInFlight : v # w => workers[v].idx # workers[w].idx

\* More items than workers: every worker has a fn call in flight and one of
\* them has already pulled a further index from the cursor.
C28_Witness ==
  /\ concurrency < Len(list)
  /\ Cardinality(PmInFlight) = concurrency
  /\ i > concurrency

\* the indices of the fn calls that ended
PmEnded == {order[a] : a \in 1..Len(order)}

C3_ThrowIsolated ==
  /\ pmap.st # "rejected"
  /\ PmQuiet => \A j \in 1..Len(list) :
                  j \notin PmThrown => out[j] = FnResult(list[j], j)


-----------------------------------------------------------------------------
(* fetchAggregatedUsage: the usage windows fetched through pMap, summed in
   the callback as the answers arrive *)

\* const RANGE_START_YMD, as a day number
RangeStart == 1

\* pMap(windows, ..., 6)
UsageConcurrency == 6

\* toYMD(new Date()): the days on which the call is made
UsageTodays == {RangeStart + 7 * k - 1 : k \in 0..MaxWeeks} \cup {RangeStart + 2}

UsageTotal(bytes, cost) ==
  Obj(<< <<"subscriberUsageOverPeriod",
           Obj(<< <<"total", Obj(<< <<"quantityPerType", Obj(<< <<"33", bytes>> >>)>>,
                                    <<"resellerCost", cost>> >>)>> >>)>> >>)

\* What callOCS returns for one window when it does not throw: both numbers,
\* both as strings, and an answer without a total.
WindowAnswers == {UsageTotal(Num(5), Num(2)), UsageTotal(Str("7"), Str("1")), Obj(<<>>)}

\* fetchUsageWindow of this revision: { bytes, resellerCost }, null where the
\* field is not a number
fetchUsageWindowBoth(resp) ==
  LET total == OrElse(Get(Get(resp, "subscriberUsageOverPeriod"), "total"), Obj(<<>>))
      qty == OrElse(Get(total, "quantityPerType"), Obj(<<>>))
  IN [bytes |-> NumberOrNull(Get(qty, "33")),
      resellerCost |-> IF IsFinite(Get(total, "resellerCost")) THEN Get(total, "resellerCost") ELSE Null]

\* sumBytes = bytes; sumResCost = resellerCost
addWindow_Overwrite(sums, u) ==
  [bytes |-> IF IsFinite(u.bytes) THEN u.bytes.n ELSE sums.bytes,
   cost |-> IF IsFinite(u.resellerCost) THEN u.resellerCost.n ELSE sums.cost]

\* if (Number.isFinite(bytes)) sumBytes += bytes;
\* if (Number.isFinite(resellerCost)) sumResCost += resellerCost;
addWindow(sums, u) ==
  [bytes |-> IF IsFinite(u.bytes) THEN sums.bytes + u.bytes.n ELSE sums.bytes,
   cost |-> IF IsFinite(u.resellerCost) THEN sums.cost + u.resellerCost.n ELSE sums.cost]

\* The days on which fetchAggregatedUsage may be called.
agInit ==
  /\ ag \in {[NoAggregate EXCEPT !.today = d] : d \in UsageTodays}
  /\ pmUnused
  /\ crUnused
  /\ faUnused
  /\ wwUnused
  /\ tcUnused
  /\ rtUnused
  /\ lpUnused
  /\ twUnused
  /\ gwUnused
  /\ fsUnused
  /\ ppUnused

\* fetchAggregatedUsage(subscriberId) up to its first await: the windows, the
\* sums at 0, and pMap starting its workers, each sending its first request.
\* awaited holds the indices whose request a worker is waiting for.
fetchAggregatedUsage ==
  /\ ag.pc = "idle"
  /\ LET windows == weekWindows("UTC", RangeStart, ag.today)
         n == pMapWorkerCount(UsageConcurrency, Len(windows))
     IN ag' = [ag EXCEPT !.pc = IF Len(windows) = 0 THEN "resolved" ELSE "pending",
                         !.windows = windows,
                         !.i = n,
                         !.awaited = 1..n,
                         !.got = [j \in 1..Len(windows) |-> Empty]]

\* Promise.all over the workers, then return { sumBytes, sumResCost }
agSettle(awaited) ==
  IF ag.pc = "pending" /\ awaited = {} THEN "resolved" ELSE ag.pc

\* The request for window idx is answered: the callback adds the window to
\* the sums, and its worker takes the next index or ends.
agWindowAnswer(idx, r) ==
  /\ idx \in ag.awaited
  /\ LET sums == addWindow([bytes |-> ag.sumBytes, cost |-> ag.sumResCost], fetchUsageWindowBoth(r))
         more == ag.i < Len(ag.windows)
         awaited == (ag.awaited \ {idx}) \cup (IF more THEN {ag.i + 1} ELSE {})
     IN ag' = [ag EXCEPT !.sumBytes = sums.bytes,
                         !.sumResCost = sums.cost,
                         !.got = [@ EXCEPT ![idx] = r],
                         !.awaited = awaited,
                         !.i = IF more THEN @ + 1 ELSE @,
                         !.overtaken = @ \/ \E v \in ag.awaited : v < idx,
                         !.pc = agSettle(awaited)]

\* The request for window idx throws: fetchUsageWindow, the callback and the
\* worker reject, and with them pMap and the call; the other workers go on.
agWindowThrow(idx) ==
  /\ idx \in ag.awaited
  /\ ag' = [ag EXCEPT !.awaited = @ \ {idx},
                      !.thrown = @ \cup {idx},
                      !.pc = IF @ = "pending" THEN "rejected" ELSE @]

AgNext ==
  \/ fetchAggregatedUsage /\ UNCHANGED agOthers
  \/ \E idx \in 1..MaxWeeks, r \in WindowAnswers : agWindowAnswer(idx, r) /\ UNCHANGED agOthers
  \/ \E idx \in 1..MaxWeeks : agWindowThrow(idx) /\ UNCHANGED agOthers

SpecUsage == agInit /\ [][AgNext]_vars

RECURSIVE SumCost(_, _)
SumCost(answers, j) ==
  IF j > Len(answers) THEN 0
  ELSE (IF IsFinite(Get(Get(Get(answers[j], "subscriberUsageOverPeriod"), "total"), "resellerCost"))
          THEN Get(Get(Get(answers[j], "subscriberUsageOverPeriod"), "total"), "resellerCost").n
          ELSE 0) + SumCost(answers, j + 1)

\* C16: when fetchAggregatedUsage resolves, every window was answered, and the
\* byte total and the reseller-cost total are the sums of the numbers the
\* windows carried, in whatever order the answers arrived; a window without a
\* number adds zero. The call rejects only when a window request threw.
C16_SumOverWindows ==
  /\ ag.pc = "resolved" =>
       /\ \A j \in 1..Len(ag.got) : ag.got[j] # Empty
       /\ ag.sumBytes = SumBytes(ag.got, 1)
       /\ ag.sumResCost = SumCost(ag.got, 1)
  /\ ag.pc = "rejected" => ag.thrown # {}

\* A call of more windows than workers resolved after a later window was
\* answered before an earlier one; one window carried numbers, one did not.
C16_Witness ==
  /\ ag.pc = "resolved"
  /\ Len(ag.windows) > UsageConcurrency
  /\ ag.overtaken
  /\ \E j, h \in 1..Len(ag.got) :
       /\ ag.got[j] = UsageTotal(Num(5), Num(2))
       /\ ag.got[h] = UsageTotal(Str("7"), Str("1"))
  /\ ag.sumBytes > 5

-----------------------------------------------------------------------------
(* callOCS: the four revisions of the transport call
     "lib"      src/lib/teltrip.js 9-20     no timer, no retry
     "page"     src/lib/teltrip.js 253-269  retry on a status that is not ok
     "part_002" src/unnamed/part_002 13-29  abort timer cleared when fetch settles
     "part_004" src/unnamed/part_004 15-35  abort timer cleared in finally *)

Revisions == {"lib", "page", "part_002", "part_004"}

\* { retries = 2 }
Retries == 2

\* The statuses the upstream answers with.
Statuses == {200, 404, 429, 500}

\* resp.ok
Ok(status) == status >= 200 /\ status <= 299

\* The bodies the upstream answers with.
Bodies == {"{}", "null", "", "<html>"}

SyntaxError == [t |-> "SyntaxError"]

\* JSON.parse(text)
JSONParse(text) ==
  CASE text = "{}" -> Obj(<<>>)
    [] text = "null" -> Null
    [] OTHER -> SyntaxError

\* let json = null; try { json = text ? JSON.parse(text) : null; } catch {}
parsedOrNull(text) ==
  IF text = "" \/ JSONParse(text) = SyntaxError THEN Null ELSE JSONParse(text)

\* await resp.json().catch(() => ({}))
jsonOrEmpty(text) ==
  IF JSONParse(text) = SyntaxError THEN Obj(<<>>) ELSE JSONParse(text)

\* const timer = setTimeout(() => controller.abort(), 25_000)
hasTimer(rev) == rev \in {"part_002", "part_004"}

\* The revisions and environments a call is made in.
tcInit ==
  /\ tc \in {[NoTransport EXCEPT !.rev = r, !.base = b, !.token = t] :
               r \in Revisions, b \in BOOLEAN, t \in BOOLEAN}
  /\ pmUnused
  /\ crUnused
  /\ faUnused
  /\ wwUnused
  /\ agUnused
  /\ rtUnused
  /\ lpUnused
  /\ twUnused
  /\ gwUnused
  /\ fsUnused
  /\ ppUnused

tcThrow(cause) == [tc EXCEPT !.pc = "failed", !.cause = cause,
                             !.timer = IF @ = "armed" THEN "cleared" ELSE @]

\* callOCS(payload) up to await fetch(...): the configuration checks, the
\* abort timer, the request
callOCS ==
  /\ tc.pc = "idle"
  /\ tc' = IF tc.rev # "page" /\ ~(tc.base /\ tc.token)
             THEN tcThrow("config")
             ELSE [tc EXCEPT !.pc = "fetch", !.sent = 1,
                             !.timer = IF hasTimer(tc.rev) THEN "armed" ELSE "none"]

\* fetch resolves with a response of the given status
tcResponse(status) ==
  /\ tc.pc = "fetch" /\ ~tc.stalled
  /\ LET seen == [tc EXCEPT !.statuses = Append(@, status)]
     IN tc' = CASE tc.rev = "page" /\ ~Ok(status) /\ tc.attempt < Retries ->
                     [seen EXCEPT !.pc = "sleep"]
                [] tc.rev = "page" /\ ~Ok(status) ->
                     [seen EXCEPT !.pc = "failed", !.cause = "status"]
                [] tc.rev = "part_002" ->
                     [seen EXCEPT !.pc = "body", !.timer = "cleared"]
                [] OTHER -> [seen EXCEPT !.pc = "body"]

\* fetch rejects: the network failed
tcNetworkError ==
  /\ tc.pc = "fetch" /\ ~tc.stalled
  /\ tc' = tcThrow("network")

\* the body arrives and is read: res.text() and JSON.parse, or resp.json()
tcBody(text) ==
  /\ tc.pc = "body" /\ ~tc.stalled
  /\ LET read == [tc EXCEPT !.text = Str(text),
                            !.timer = IF @ = "armed" THEN "cleared" ELSE @]
         status == tc.statuses[Len(tc.statuses)]
     IN tc' = CASE tc.rev = "page" ->
                     [read EXCEPT !.pc = "returned", !.value = jsonOrEmpty(text)]
                [] ~Ok(status) ->
                     [read EXCEPT !.pc = "failed", !.cause = "status"]
                [] OTHER ->
                     [read EXCEPT !.pc = "returned",
                                  !.value = Coalesce(parsedOrNull(text), Obj(<<>>))]

\* reading the body rejects: the connection broke
tcBodyError ==
  /\ tc.pc = "body" /\ ~tc.stalled
  /\ tc' = IF tc.rev = "page"
             THEN [tc EXCEPT !.pc = "returned", !.value = Obj(<<>>)]
             ELSE tcThrow("network")

\* the upstream stops answering
tcStall ==
  /\ tc.pc \in {"fetch", "body"} /\ ~tc.stalled
  /\ tc' = [tc EXCEPT !.stalled = TRUE]

\* the abort timer fires: the pending fetch or body read rejects
tcTimeout ==
  /\ tc.pc \in {"fetch", "body"} /\ tc.timer = "armed"
  /\ tc' = [tc EXCEPT !.pc = "failed", !.cause = "timeout", !.timer = "fired"]

\* await sleep(retryDelayMs * (attempt + 1)) ends: attempt++, the next request
tcWake ==
  /\ tc.pc = "sleep"
  /\ tc' = [tc EXCEPT !.pc = "fetch", !.attempt = @ + 1, !.sent = @ + 1]

TcNext ==
  \/ callOCS /\ UNCHANGED tcOthers
  \/ \E status \in Statuses : tcResponse(status) /\ UNCHANGED tcOthers
  \/ tcNetworkError /\ UNCHANGED tcOthers
  \/ \E text \in Bodies : tcBody(text) /\ UNCHANGED tcOthers
  \/ tcBodyError /\ UNCHANGED tcOthers
  \/ tcStall /\ UNCHANGED tcOthers
  \/ tcTimeout /\ UNCHANGED tcOthers
  \/ tcWake /\ UNCHANGED tcOthers

SpecCall == tcInit /\ [][TcNext]_vars

\* the attempts a call may make before it fails: 3
MaxAttempts == Retries + 1

Transient(status) == status >= 500 /\ status <= 599
Permanent(status) == status >= 400 /\ status <= 499 /\ status # 429

\* C17: in every revision, a call that failed on a transient failure (a
\* network error, a timeout or a 5xx status) has made 3 attempts, and a call
\* that received a success status did not fail on a status.
C17_TransientRetried ==
  /\ (tc.pc = "failed" /\ tc.cause \in {"network", "timeout"}) => tc.sent = MaxAttempts
  /\ (tc.pc = "failed" /\ tc.cause = "status" /\ Transient(tc.statuses[Len(tc.statuses)])) =>
       tc.sent = MaxAttempts
  /\ (tc.pc = "failed" /\ tc.cause = "status") =>
       \A j \in 1..Len(tc.statuses) : ~Ok(tc.statuses[j])

\* C18: once the retrying revision of callOCS received a permanent status (4xx
\* other than 429), exactly one request has been sent and the call does
\* nothing but fail.
C18_PermanentFailsAtOnce ==
  (tc.rev = "page" /\ \E j \in 1..Len(tc.statuses) : Permanent(tc.statuses[j])) =>
     /\ tc.sent = 1
     /\ tc.pc \in {"body", "failed"}

\* C19: a call of the server-side callOCS that returned after a success status
\* read a body that is syntactically valid JSON.
C19_InvalidJsonFails ==
  (tc.rev \in {"lib", "part_004"} /\ tc.pc = "returned") => JSONParse(tc.text.s) # SyntaxError

\* C20: as long as a call of the server-side callOCS waits for the upstream,
\* for the response or for its body, its own timer is running.
C20_TimeoutCoversCall ==
  (tc.rev # "page" /\ tc.pc \in {"fetch", "body"}) => tc.timer = "armed"

-----------------------------------------------------------------------------
(* GET /api/fetch-data: the route handler with its own ocsFetch and
   fetchPackageCost *)

RouteSubA == Obj(<< <<"iccid", Str("a")>>, <<"prepaidPackageTemplateId", Num(1)>> >>)
RouteSubB == Obj(<< <<"iccid", Str("b")>>, <<"prepaidPackageTemplateId", Num(2)>> >>)
RouteSubC == Obj(<< <<"iccid", Str("c")>> >>)

RouteListings == UNION {[1..n -> {RouteSubA, RouteSubB, RouteSubC}] : n \in 0..MaxSubs}

\* What ocsFetch gives for the listing request: a rejection (network error,
\* status not ok, body that is not JSON), or the parsed body.
RouteListingAnswers ==
  {Threw, Null, Obj(<<>>)} \cup
  {Obj(<< <<"listSubscriberRsp", Obj(<< <<"subscriber", Arr(l)>> >>)>> >>) : l \in RouteListings}

\* What ocsFetch gives for a template request.
RouteCostAnswers ==
  {Threw, Obj(<<>>)} \cup
  {Obj(<< <<"listPrepaidPackageTemplateRsp", Obj(<< <<"prepaidPackageTemplate", Arr(<<t>>)>> >>)>> >>) :
     t \in {Obj(<< <<"cost", Num(5)>> >>), Obj(<<>>)}}

\* ocsFetch up to its await: fetch(BASE_URL, ...) throws on a URL that does
\* not parse, before anything is sent; the token only fills a header
ocsFetchSends(r) == r.base

\* NextResponse.json({ ok: false, error: err.message }, { status: 500 })
routeError == [t |-> "json", ok |-> FALSE, status |-> 500, data |-> <<>>]

\* NextResponse.json({ ok: true, data: enriched })
routeOk(subs, cost) ==
  [t |-> "json", ok |-> TRUE, status |-> 200,
   data |-> [j \in 1..Len(subs) |-> [sub |-> subs[j], subscriberOneTimeCost |-> cost[j]]]]

\* fetchPackageCost after its await: templates[0].cost, or 0 without templates
packageCostOf(data) ==
  LET templates == OrElse(Get(Get(data, "listPrepaidPackageTemplateRsp"), "prepaidPackageTemplate"), Arr(<<>>))
  IN IF templates.t = "arr" /\ Len(templates.a) > 0 THEN Get(templates.a[1], "cost") ELSE Num(0)

\* The environments the handler runs in.
rtInit ==
  /\ rt \in {[NoRoute EXCEPT !.base = b, !.token = t] : b \in BOOLEAN, t \in BOOLEAN}
  /\ pmUnused
  /\ crUnused
  /\ faUnused
  /\ wwUnused
  /\ agUnused
  /\ tcUnused
  /\ lpUnused
  /\ twUnused
  /\ gwUnused
  /\ fsUnused
  /\ ppUnused

\* GET(req) up to the await of the listing request
GET ==
  /\ rt.pc = "idle"
  /\ rt' = IF ocsFetchSends(rt)
             THEN [rt EXCEPT !.pc = "listing", !.sent = 1]
             ELSE [rt EXCEPT !.pc = "responded", !.cause = "config", !.response = routeError]

\* the listing request is answered: subs, then subs.map starts a
\* fetchPackageCost per subscriber, each up to its await (or to return 0)
rtListAnswer(r) ==
  /\ rt.pc = "listing"
  /\ IF r \in {Threw, Null}
       THEN rt' = [rt EXCEPT !.pc = "responded", !.cause = "listing", !.response = routeError]
       ELSE LET subs == OrElse(Get(Get(r, "listSubscriberRsp"), "subscriber"), Arr(<<>>)).a
                asked == {j \in 1..Len(subs) : Truthy(Get(subs[j], "prepaidPackageTemplateId"))}
                cost == [j \in 1..Len(subs) |-> IF j \in asked THEN Empty ELSE Num(0)]
            IN rt' = IF asked # {} /\ ~ocsFetchSends(rt)
                       THEN [rt EXCEPT !.pc = "responded", !.cause = "config", !.subs = subs,
                                       !.response = routeError]
                       ELSE [rt EXCEPT !.subs = subs, !.cost = cost, !.awaited = asked,
                                       !.sent = @ + Cardinality(asked),
                                       !.pc = IF asked = {} THEN "responded" ELSE "costs",
                                       !.response = IF asked = {} THEN routeOk(subs, cost) ELSE @]

\* the template request of subscriber j is answered; a rejection rejects
\* Promise.all and is caught by GET, the other lookups go on unobserved
rtCostAnswer(j, r) ==
  /\ j \in rt.awaited
  /\ LET awaited == rt.awaited \ {j}
     IN IF r = Threw
          THEN rt' = [rt EXCEPT !.awaited = awaited,
                                !.pc = "responded",
                                !.cause = IF rt.pc = "costs" THEN "cost" ELSE @,
                                !.response = IF rt.pc = "costs" THEN routeError ELSE @]
          ELSE LET cost == [rt.cost EXCEPT ![j] = packageCostOf(r)]
               IN rt' = [rt EXCEPT !.awaited = awaited, !.cost = cost,
                                   !.pc = IF awaited = {} THEN "responded" ELSE @,
                                   !.response = IF rt.pc = "costs" /\ awaited = {}
                                                  THEN routeOk(rt.subs, cost) ELSE @]

RtNext ==
  \/ GET /\ UNCHANGED rtOthers
  \/ \E r \in RouteListingAnswers : rtListAnswer(r) /\ UNCHANGED rtOthers
  \/ \E j \in 1..MaxSubs, r \in RouteCostAnswers : rtCostAnswer(j, r) /\ UNCHANGED rtOthers

SpecRoute == rtInit /\ [][RtNext]_vars

\* C21: the endpoint sends a request only when the base URL and the token are
\* both set; with one of them missing it answers with the error and has sent
\* nothing.
C21_NoRequestWithoutSettings ==
  ~(rt.base /\ rt.token) => rt.sent = 0 /\ (rt.pc # "idle" => rt.response = routeError)

\* C25: the endpoint answers with ok false and status 500 only when the run
\* as a whole failed, on its settings or on the listing request; a failed
\* cost lookup of one subscriber leaves the response ok.
C25_ErrorOnlyForWholeRun ==
  (rt.pc = "responded" /\ ~rt.response.ok) => rt.cause \in {"config", "listing"}

-----------------------------------------------------------------------------
(* getLatestPackage on its own: any package list upstream, in any of the
   shapes the answer comes in *)

\* a package of the upstream list: activated at ts (or without the field),
\* of template tpl
PackageAt(ts, tpl) ==
  IF ts = Undef THEN Obj(<< <<"templateId", Num(tpl)>> >>)
  ELSE Obj(<< <<"tsactivationutc", ts>>, <<"templateId", Num(tpl)>> >>)

UpstreamPackages == {PackageAt(ts, tpl) : ts \in {Undef, Null, Num(1), Num(2)}, tpl \in {1, 2}}

\* The answers of listSubscriberPrepaidPackages that carry the list pkgs.
PackageShapes(pkgs) ==
  { Obj(<< <<"listSubscriberPrepaidPackagesRsp", Obj(<< <<"packages", Arr(pkgs)>> >>)>> >>),
    Obj(<< <<"listSubscriberPrepaidPackages", Obj(<< <<"packages", Arr(pkgs)>> >>)>> >>),
    Obj(<< <<"packages", Arr(pkgs)>> >>) }

\* The package lists a subscriber has upstream.
lpInit ==
  /\ lp \in {[NoLatest EXCEPT !.pkgs = l] :
               l \in UNION {[1..n -> UpstreamPackages] : n \in 0..MaxPkgs}}
  /\ pmUnused
  /\ crUnused
  /\ faUnused
  /\ wwUnused
  /\ agUnused
  /\ tcUnused
  /\ rtUnused
  /\ twUnused
  /\ gwUnused
  /\ fsUnused
  /\ ppUnused

\* getLatestPackage(subscriberId) up to await callOCS(...)
lpCall ==
  /\ lp.pc = "idle"
  /\ lp' = [lp EXCEPT !.pc = "await"]

\* the request is answered: the rest of getLatestPackage
lpAnswer(r) ==
  /\ lp.pc = "await"
  /\ lp' = [lp EXCEPT !.pc = "returned", !.resp = r, !.result = getLatestPackage(r)]

\* callOCS throws, and getLatestPackage with it
lpThrow ==
  /\ lp.pc = "await"
  /\ lp' = [lp EXCEPT !.pc = "thrown"]

LpNext ==
  \/ lpCall /\ UNCHANGED lpOthers
  \/ \E r \in PackageShapes(lp.pkgs) \cup {Obj(<<>>)} : lpAnswer(r) /\ UNCHANGED lpOthers
  \/ lpThrow /\ UNCHANGED lpOthers

SpecLatest == lpInit /\ [][LpNext]_vars

\* the indices of the packages activated last, a missing timestamp counting as 0
LatestIndices(pkgs) ==
  {j \in 1..Len(pkgs) : \A h \in 1..Len(pkgs) : ActivationTime(pkgs[h]) <= ActivationTime(pkgs[j])}

\* C22: getLatestPackage returns null for an empty or missing list; for a
\* non-empty list it returns the fields of a package whose activation
\* timestamp is the greatest of the list (a missing one counting as 0), and
\* among several such packages those of the one that comes last in the list.
C22_LatestByActivation ==
  lp.pc = "returned" =>
    IF lp.resp = Obj(<<>>) \/ Len(lp.pkgs) = 0
      THEN lp.result = Null
      ELSE LET j == CHOOSE j \in LatestIndices(lp.pkgs) : \A h \in LatestIndices(lp.pkgs) : h <= j
           IN /\ lp.result # Null
              /\ lp.result.tsactivationutc = OrElse(Get(lp.pkgs[j], "tsactivationutc"), Null)
              /\ lp.result.prepaidpackagetemplateid = Get(lp.pkgs[j], "templateId")

\* Three packages, the first and the last activated at the same, greatest
\* time and of different templates: the last one was returned.
C22_Witness ==
  /\ lp.pc = "returned" /\ Len(lp.pkgs) = 3 /\ lp.result # Null
  /\ LatestIndices(lp.pkgs) = {1, 3}
  /\ Get(lp.pkgs[1], "templateId") # Get(lp.pkgs[3], "templateId")
  /\ lp.result.prepaidpackagetemplateid = Get(lp.pkgs[3], "templateId")
  /\ ActivationTime(lp.pkgs[2]) < ActivationTime(lp.pkgs[3])

-----------------------------------------------------------------------------
(* fetchAllData as its callers use it: called with an account and options,
   and run twice in one process, against an upstream that answers
   every request of the second run as it answered it in the first: the
   template cache is what the first run leaves to the second *)

\* The upstreams: the answer to the listing request, the subscribers whose
\* package request fails, how the two template verbs answer, and the answer
\* to every usage window.
Upstreams ==
  [listing : ListingAnswers, pkgFails : {{}, {1}, {2}}, tplList : {"throw", "empty", "array"},
   tplGet : {"throw", "template"}, usage : UsageAnswers]

\* What the caller passes, fetchAllData(accountIdParam, { includeUsage }), and
\* the OCS_ACCOUNT_ID of the process (0: not set)
CallerArgs ==
  { [accountIdParam |-> Num(7), includeUsage |-> TRUE, default |-> 0],
    [accountIdParam |-> Num(7), includeUsage |-> FALSE, default |-> 0],
    [accountIdParam |-> Undef, includeUsage |-> TRUE, default |-> 7],
    [accountIdParam |-> Undef, includeUsage |-> TRUE, default |-> 0],
    [accountIdParam |-> Num(0), includeUsage |-> TRUE, default |-> 0],
    [accountIdParam |-> Str("Basic"), includeUsage |-> TRUE, default |-> 0],
    [accountIdParam |-> Str("-2"), includeUsage |-> TRUE, default |-> 0] }

twInit ==
  /\ tw \in {[NoTwice EXCEPT !.run = 1, !.up = u, !.args = a] : u \in Upstreams, a \in CallerArgs}
  /\ env = [base |-> TRUE, token |-> TRUE, accountId |-> tw.args.default]
  /\ fa = NoFetch
  /\ listing = <<>>
  /\ rows = <<>>
  /\ catalog = FetchCatalog
  /\ tplCache = <<>>
  /\ call = NoCall
  /\ pmUnused
  /\ wwUnused
  /\ agUnused
  /\ tcUnused
  /\ rtUnused
  /\ lpUnused
  /\ gwUnused
  /\ fsUnused
  /\ ppUnused

\* the answer of this upstream to the package request in flight
twPackageAnswer ==
  IF fa.pc # "package" THEN Threw
  ELSE IF rows[fa.k].sid.n \in tw.up.pkgFails THEN Threw ELSE PackagesOf(rows[fa.k].sid)

\* the answers of this upstream to the two template verbs
twTemplateListAnswer ==
  CASE tw.up.tplList = "throw" -> Threw
    [] tw.up.tplList = "array" /\ call.id \in DOMAIN catalog ->
         Obj(<< <<"listPrepaidPackageTemplateRsp",
                  Obj(<< <<"prepaidPackageTemplate", Arr(<<catalog[call.id]>>)>> >>)>> >>)
    [] OTHER -> Obj(<<>>)

twTemplateGetAnswer ==
  IF tw.up.tplGet = "template" /\ call.id \in DOMAIN catalog
    THEN Obj(<< <<"prepaidPackageTemplate", catalog[call.id]>> >>)
    ELSE Threw

\* the first run has returned; fetchAllData is called again in the same
\* process: new locals, the same module-level tplCache
twAgain ==
  /\ tw.run = 1
  /\ fa.pc = "returned"
  /\ tw' = [tw EXCEPT !.run = 2, !.first = rows]
  /\ fa' = NoFetch
  /\ listing' = <<>>
  /\ rows' = <<>>
  /\ call' = NoCall
  /\ UNCHANGED <<env, catalog, tplCache, pmVars, wwVars, agVars, tcVars, rtVars, lpVars, gwVars,
               fsVars, ppVars>>

TwNext ==
  \/ fetchAllData(tw.args.accountIdParam)
  \/ faListAnswer(tw.up.listing)
  \/ faPackageAnswer(twPackageAnswer)
  \/ crListAnswer(twTemplateListAnswer) /\ UNCHANGED crOthers
  \/ crGetAnswer(twTemplateGetAnswer) /\ UNCHANGED crOthers
  \/ faCostReturn
  \/ faUsageAnswer(tw.up.usage)
  \/ twAgain

SpecTwice == twInit /\ [][TwNext]_vars

\* the fields of a row that fetchAllData returns
RowOut(row) ==
  [ iccid |-> row.iccid,
    prepaidpackagetemplateid |-> row.prepaidpackagetemplateid,
    tsactivationutc |-> row.tsactivationutc,
    tsexpirationutc |-> row.tsexpirationutc,
    pckdatabyte |-> row.pckdatabyte,
    useddatabyte |-> row.useddatabyte,
    subscriberUsageOverPeriod |-> row.subscriberUsageOverPeriod,
    subscriberOneTimeCost |-> row.subscriberOneTimeCost ]

RowsOut(rs) == [j \in 1..Len(rs) |-> RowOut(rs[j])]

\* C24: a second run of fetchAllData against the same upstream does not fail
\* once the first has returned, and it returns the rows the first run
\* returned, field by field, the cost included.
C24_SecondRunSameRows ==
  tw.run = 2 =>
    /\ fa.pc # "failed"
    /\ fa.pc = "returned" => RowsOut(rows) = RowsOut(tw.first)

\* A second run has returned two rows; the last cost it resolved came from
\* the cache and is the cost 5 in a row, as in the first run.
C24_Witness ==
  /\ tw.run = 2 /\ fa.pc = "returned" /\ Len(rows) = 2
  /\ call.known /\ call.sent = <<>> /\ call.val = Num(5)
  /\ \E j \in 1..Len(rows) : rows[j].subscriberOneTimeCost = Num(5)
  /\ \E j \in 1..Len(tw.first) : tw.first[j].subscriberOneTimeCost = Num(5)

\* C26: a call of fetchAllData that was given includeUsage false sends no
\* usage-window request.
C26_NoUsageWhenExcluded ==
  ~tw.args.includeUsage => fa.pc # "usage"

\* C27: fetchAllData sends a request only for an account identifier that is
\* a positive integer.
C27_PositiveAccountOnly ==
  (fa.pc # "idle" /\ ~(fa.pc = "failed" /\ fa.cause = "config")) => fa.accountId > 0

-----------------------------------------------------------------------------
(* getWeeklyUsage: the usage windows since RANGE_START_YMD fetched through
   pMap, each by getUsageWindow, which asks a second time under the other
   field names when the first answer holds no usage *)

\* pMap(wins, ..., 5)
WeeklyConcurrency == 5

UsageTotalRsp(bytes) ==
  Obj(<< <<"subscriberUsageOverPeriodRsp",
           Obj(<< <<"total", Obj(<< <<"quantityPerType", Obj(<< <<"33", bytes>> >>)>> >>)>> >>)>> >>)

\* What callOCS returns for one request of a window when it does not throw.
WeeklyAnswers == {UsageTotal(Num(5), Num(2)), UsageTotalRsp(Num(5)), Obj(<<>>)}

\* !r?.subscriberUsageOverPeriod && !r?.subscriberUsageOverPeriodRsp
gwAsksAgain(r) ==
  ~Truthy(Get(r, "subscriberUsageOverPeriod")) /\ ~Truthy(Get(r, "subscriberUsageOverPeriodRsp"))

\* the bytes getUsageWindow returns for the answer r
getUsageWindowBytes(r) ==
  LET total == OrElse(OrElse(Get(Get(r, "subscriberUsageOverPeriod"), "total"),
                             Get(Get(r, "subscriberUsageOverPeriodRsp"), "total")), Obj(<<>>))
      qty == OrElse(Get(total, "quantityPerType"), Obj(<<>>))
      bytes == IF Get(qty, "33").t = "num" THEN Get(qty, "33") ELSE Null
  IN IF IsFinite(bytes) THEN bytes.n ELSE 0

\* The days on which getWeeklyUsage may be called.
gwInit ==
  /\ gw \in {[NoWeekly EXCEPT !.today = d] : d \in UsageTodays}
  /\ pmUnused
  /\ crUnused
  /\ faUnused
  /\ wwUnused
  /\ agUnused
  /\ tcUnused
  /\ rtUnused
  /\ lpUnused
  /\ twUnused
  /\ fsUnused
  /\ ppUnused

\* getWeeklyUsage(subscriberId) up to its first await: the windows, and pMap
\* starting its workers, each sending the first request of its window.
getWeeklyUsage ==
  /\ gw.pc = "idle"
  /\ LET wins == weekWindows("UTC", RangeStart, gw.today)
         n == pMapWorkerCount(WeeklyConcurrency, Len(wins))
     IN gw' = [gw EXCEPT !.pc = IF Len(wins) = 0 THEN "resolved" ELSE "pending",
                         !.windows = wins,
                         !.i = n,
                         !.first = 1..n,
                         !.sent = n]

\* getUsageWindow returns for window idx with the answer r: the worker takes
\* the next index and sends its first request, or ends; pMap resolves when
\* the last worker ended, and the items are summed.
gwReturn(g, idx, r) ==
  LET more == g.i < Len(g.windows)
      first == (g.first \ {idx}) \cup (IF more THEN {g.i + 1} ELSE {})
      second == g.second \ {idx}
  IN [g EXCEPT !.first = first,
               !.second = second,
               !.i = IF more THEN @ + 1 ELSE @,
               !.sent = IF more THEN @ + 1 ELSE @,
               !.total = @ + getUsageWindowBytes(r),
               !.pc = IF @ = "pending" /\ first = {} /\ second = {} THEN "resolved" ELSE @]

\* The first request of window idx is answered: with no usage in the answer
\* the second request is sent, else getUsageWindow returns.
gwFirstAnswer(idx, r) ==
  /\ idx \in gw.first
  /\ gw' = IF gwAsksAgain(r)
             THEN [gw EXCEPT !.first = @ \ {idx}, !.second = @ \cup {idx}, !.sent = @ + 1]
             ELSE gwReturn(gw, idx, r)

\* The second request of window idx is answered.
gwSecondAnswer(idx, r) ==
  /\ idx \in gw.second
  /\ gw' = gwReturn(gw, idx, r)

\* A request of window idx throws: getUsageWindow, the worker and pMap
\* reject; the other workers go on.
gwThrow(idx) ==
  /\ idx \in gw.first \cup gw.second
  /\ gw' = [gw EXCEPT !.first = @ \ {idx}, !.second = @ \ {idx},
                      !.pc = IF @ = "pending" THEN "rejected" ELSE @]

GwNext ==
  \/ getWeeklyUsage /\ UNCHANGED gwOthers
  \/ \E idx \in 1..MaxWeeks, r \in WeeklyAnswers : gwFirstAnswer(idx, r) /\ UNCHANGED gwOthers
  \/ \E idx \in 1..MaxWeeks, r \in WeeklyAnswers : gwSecondAnswer(idx, r) /\ UNCHANGED gwOthers
  \/ \E idx \in 1..MaxWeeks : gwThrow(idx) /\ UNCHANGED gwOthers

SpecWeekly == gwInit /\ [][GwNext]_vars

\* C31: a call over W windows that resolved, so that no request of it
\* failed, has sent exactly W usage requests.
C31_OneRequestPerWindow ==
  gw.pc = "resolved" => gw.sent = Len(gw.windows)

-----------------------------------------------------------------------------
(* fetchAllSubscribers: the paging loop over listSubscriber. The backend
   holds the subscribers 1..total and either pages them, or ignores the page
   number, or ignores the page number and the page size. *)

\* const pageSize = 500, scaled down
PageSize == 2

\* the most subscribers a backend holds
MaxListed == 5

\* the pages the model follows the loop for
MaxPages == 4

Backends == {"paged", "ignoresPage", "ignoresPageAndSize"}

ListedSubscriber(k) == Obj(<< <<"subscriberId", Num(k)>> >>)

\* the subscribers the backend returns for { page, pageSize }
PageOf(backend, total, page) ==
  LET from == IF backend = "paged" THEN (page - 1) * PageSize + 1 ELSE 1
      to == IF backend = "ignoresPageAndSize" THEN total
            ELSE Min2(from + PageSize - 1, total)
  IN [j \in 1..(IF to >= from THEN to - from + 1 ELSE 0) |-> ListedSubscriber(from + j - 1)]

\* What callOCS returns for the listing request of a page.
PageAnswer(backend, shape, total, page) ==
  IF shape = "nested"
    THEN Obj(<< <<"listSubscriber", Obj(<< <<"subscribers", Arr(PageOf(backend, total, page))>> >>)>> >>)
    ELSE Obj(<< <<"subscribers", Arr(PageOf(backend, total, page))>> >>)

\* r?.listSubscriber?.subscribers ?? r?.listSubscriber ?? r?.subscribers ?? []
PageArray(r) ==
  Coalesce(Coalesce(Coalesce(Get(Get(r, "listSubscriber"), "subscribers"), Get(r, "listSubscriber")),
                    Get(r, "subscribers")), Arr(<<>>))

\* arr.length
LengthOf(arr) == IF arr.t = "arr" THEN Num(Len(arr.a)) ELSE Undef

\* s?.subscriberId ?? s?.subscriberid ?? s?.id ?? s?.SID ?? s?.iccid ?? null
PagedSid(sub) ==
  Coalesce(Coalesce(Coalesce(Coalesce(Coalesce(Get(sub, "subscriberId"), Get(sub, "subscriberid")),
                                      Get(sub, "id")), Get(sub, "SID")), Get(sub, "iccid")), Null)

\* The backends fetchAllSubscribers may face.
fsInit ==
  /\ fs \in {[NoPaging EXCEPT !.backend = b, !.shape = sh, !.total = n] :
               b \in Backends, sh \in {"nested", "flat"}, n \in 0..MaxListed}
  /\ pmUnused
  /\ crUnused
  /\ faUnused
  /\ wwUnused
  /\ agUnused
  /\ tcUnused
  /\ rtUnused
  /\ lpUnused
  /\ twUnused
  /\ gwUnused
  /\ ppUnused

\* fetchAllSubscribers(accountId) up to its first await: the request of page 1
fetchAllSubscribers ==
  /\ fs.pc = "idle"
  /\ fs' = [fs EXCEPT !.pc = "request", !.page = 1, !.sent = 1]

\* The request of the page is answered: the subscribers are pushed, and the
\* loop ends on an empty or a short page, else sleeps before the next page.
fsAnswer ==
  /\ fs.pc = "request"
  /\ LET arr == PageArray(PageAnswer(fs.backend, fs.shape, fs.total, fs.page))
     IN IF ~Truthy(LengthOf(arr))
          THEN fs' = [fs EXCEPT !.pc = "returned"]
          ELSE LET all == fs.all \o [j \in 1..Len(arr.a) |-> PagedSid(arr.a[j])]
               IN IF Len(arr.a) < PageSize
                    THEN fs' = [fs EXCEPT !.pc = "returned", !.all = all]
                    ELSE fs' = [fs EXCEPT !.pc = "sleep", !.all = all, !.page = @ + 1]

\* The request of the page throws, and with it the call.
fsThrow ==
  /\ fs.pc = "request"
  /\ fs' = [fs EXCEPT !.pc = "rejected"]

\* sleep(120) is over: the request of the next page
fsWake ==
  /\ fs.pc = "sleep"
  /\ fs.page <= MaxPages
  /\ fs' = [fs EXCEPT !.pc = "request", !.sent = @ + 1]

FsNext ==
  \/ fetchAllSubscribers /\ UNCHANGED fsOthers
  \/ fsAnswer /\ UNCHANGED fsOthers
  \/ fsThrow /\ UNCHANGED fsOthers
  \/ fsWake /\ UNCHANGED fsOthers

SpecPaging == fsInit /\ [][FsNext]_vars

\* C37, the part a finite run decides: against a backend that ignores the
\* page number only page 1 is requested, and no subscriber is collected
\* twice.
C37_PageOneOnlyNoDuplicates ==
  /\ fs.backend # "paged" => fs.sent <= 1
  /\ \A a, b \in 1..Len(fs.all) : a # b => fs.all[a] # fs.all[b]

-----------------------------------------------------------------------------
(* fetchAllData with the rows enriched through pMap: each row's callback
   awaits its package request, its template cost and its aggregated usage,
   which itself runs the usage windows through pMap. The two pools have 6
   workers each in the source; the model runs them with fewer. *)

\* the most subscribers of a listing
PipeSubs == 3

\* pMap(rows, ..., 6), scaled down
PipeRowWorkers == 2

\* pMap(windows, ..., 6) in fetchAggregatedUsage, scaled down
PipeWindowWorkers == 2

\* toYMD(new Date()): a day in the second week of the range
PipeToday == RangeStart + 7 + 2

PipeSubscriber(k) == Obj(<< <<"subscriberId", Num(k)>> >>)
PipeNoId == Obj(<< <<"iccid", Str("c")>> >>)

\* The subscriber lists of the upstream: all with an id, or the second without.
PipeListings ==
  {[j \in 1..n |-> PipeSubscriber(j)] : n \in 0..PipeSubs}
  \cup {[j \in 1..n |-> IF j = 2 THEN PipeNoId ELSE PipeSubscriber(j)] : n \in 2..PipeSubs}

\* What callOCS returns for { listSubscriberPrepaidPackages: { subscriberId } }:
\* every subscriber has one package of template 1.
PipePackageAnswers ==
  { Threw,
    Obj(<< <<"listSubscriberPrepaidPackages", Obj(<< <<"packages", Arr(<<
      Obj(<< <<"tsactivationutc", Num(2)>>,
             <<"packageTemplate", Obj(<< <<"prepaidpackagetemplateid", Num(1)>> >>)>> >>) >>)>> >>)>> >>) }

\* What callOCS returns for the two template verbs.
PipeListAnswers ==
  { Threw,
    Obj(<< <<"listPrepaidPackageTemplateRsp",
             Obj(<< <<"prepaidPackageTemplate", Arr(<<Obj(<< <<"cost", Num(5)>> >>)>>)>> >>)>> >>) }

PipeGetAnswers == { Threw, Obj(<< <<"prepaidPackageTemplate", Obj(<< <<"cost", Num(5)>> >>)>> >>) }

\* What callOCS returns for one usage window.
PipeWindowAnswers == { Threw, UsageTotal(Num(5), Num(2)) }

\* the row that subscribers.map builds
pipeRow(s) ==
  [ prepaidpackagetemplateid |-> Null,
    tsactivationutc |-> Null,
    subscriberOneTimeCost |-> Null,
    totalBytesSinceJun1 |-> Null,
    resellerCostSinceJun1 |-> Null,
    sid |-> Coalesce(Get(s, "subscriberId"), Null) ]

\* fetchPackagesFor, from the answer of listSubscriberPrepaidPackages
fetchPackagesFor(resp) ==
  LET pkgs == OrElse(Get(Get(resp, "listSubscriberPrepaidPackages"), "packages"), Arr(<<>>))
  IN IF pkgs.t # "arr" \/ Len(pkgs.a) = 0 THEN Null
     ELSE LET p == LatestOf(pkgs.a)
              tpl == OrElse(Get(p, "packageTemplate"), Obj(<<>>))
          IN [ prepaidpackagetemplateid |->
                 Coalesce(Coalesce(Get(tpl, "prepaidpackagetemplateid"), Get(tpl, "id")), Null),
               tsactivationutc |-> Coalesce(Get(p, "tsactivationutc"), Null) ]

\* if (pkg) Object.assign(r, pkg)
assignPackage(row, pkg) ==
  IF pkg = Null THEN row
  ELSE [row EXCEPT !.prepaidpackagetemplateid = pkg.prepaidpackagetemplateid,
                   !.tsactivationutc = pkg.tsactivationutc]

\* pickCost of fetchTemplateCost, for templates that carry the cost in a
\* direct field as a number
pickCost(tpl) ==
  IF ~Truthy(tpl) \/ tpl.t # "obj" THEN Null
  ELSE LET direct == Coalesce(Coalesce(Coalesce(Coalesce(Coalesce(
                       Get(tpl, "oneTimePrice"), Get(tpl, "activationFee")), Get(tpl, "subscriberCost")),
                       Get(tpl, "cost")), Get(tpl, "price")), Get(tpl, "amount"))
       IN IF direct.t = "num" THEN direct ELSE Null

\* val = { cost: Number.isFinite(costNum) ? costNum : null, ... }
templateVal(tpl) == [cost |-> IF IsFinite(pickCost(tpl)) THEN pickCost(tpl) ELSE Null]

\* templateCostCache.set(templateId, val)
pipeCacheSet(cache, id, val) ==
  [k \in DOMAIN cache \cup {id} |-> IF k = id THEN val ELSE cache[k]]

\* if (tpl?.cost != null) r.subscriberOneTimeCost = tpl.cost
assignCost(row, val) ==
  IF val # Null /\ ~Nullish(val.cost) THEN [row EXCEPT !.subscriberOneTimeCost = val.cost] ELSE row

\* heard is history: the answers to the row's own requests and the value it
\* read from the cache
NoTask ==
  [pc |-> "wait", usage |-> "none", wi |-> 0, awaited |-> {}, sumBytes |-> 0, sumResCost |-> 0,
   heard |-> [pkg |-> Undef, cached |-> Undef, list |-> Undef, get |-> Undef, windows |-> <<>>]]

\* r1?.listPrepaidPackageTemplateRsp?.prepaidPackageTemplate?.[0]
\*   ?? r1?.listPrepaidPackageTemplateRsp?.prepaidPackageTemplate ?? null
pipeTemplateOfList(r) ==
  LET listed == Get(Get(r, "listPrepaidPackageTemplateRsp"), "prepaidPackageTemplate")
  IN IF r = Threw THEN Null ELSE Coalesce(Coalesce(First(listed), listed), Null)

\* r2?.prepaidPackageTemplate ?? r2?.prepaidPackageTemplates ?? r2?.template ?? null
pipeTemplateOfGet(r) ==
  IF r = Threw THEN Null
  ELSE Coalesce(Coalesce(Coalesce(Get(r, "prepaidPackageTemplate"),
                  Get(r, "prepaidPackageTemplates")), Get(r, "template")), Null)

\* One turn of a row worker's loop: it takes the next index; a row without
\* id is left at once and the next index is taken; past the end the worker
\* exits.
RECURSIVE ppTakeNext(_)
ppTakeNext(p) ==
  IF p.i >= Len(p.rows) THEN p
  ELSE LET idx == p.i + 1
       IN IF ~Truthy(p.rows[idx].sid)
            THEN ppTakeNext([p EXCEPT !.i = idx, !.task[idx].pc = "done"])
            ELSE [p EXCEPT !.i = idx, !.task[idx].pc = "package"]

\* pMap starts n workers
RECURSIVE ppStartWorkers(_, _)
ppStartWorkers(p, n) == IF n = 0 THEN p ELSE ppStartWorkers(ppTakeNext(p), n - 1)

\* the rows whose callback is waiting for an answer
ppActive(p) == {j \in 1..Len(p.rows) : p.task[j].pc \in {"package", "list", "get", "usage"}}

\* return rows as soon as the cursor is past the last row
ppSettle_CursorOnly(p) ==
  IF p.pc = "running" /\ p.i >= Len(p.rows) THEN [p EXCEPT !.pc = "returned"] ELSE p

\* Promise.all over the row workers, then return rows
ppSettle(p) ==
  IF p.pc = "running" /\ ppActive(p) = {} THEN [p EXCEPT !.pc = "returned"] ELSE p

\* the callback of row j is over and its worker goes on, but the end of the
\* last worker is not passed on to the caller
ppLeaveRow_NoSettle(p, j) ==
  ppTakeNext([p EXCEPT !.rows[j].sid = Deleted, !.task[j].pc = "done"])

\* the callback of row j is over: delete r._sid, and its worker goes on
ppLeaveRow(p, j) ==
  ppSettle(ppTakeNext([p EXCEPT !.rows[j].sid = Deleted, !.task[j].pc = "done"]))

\* the windows fetchAggregatedUsage computes from RANGE_START_YMD and today
PipeWindows == weekWindows("UTC", RangeStart, PipeToday)

\* step 3 of row j starts: fetchAggregatedUsage computes the windows and pMap
\* starts its workers, each sending the request of its window
ppBeginUsage(p, j) ==
  LET windows == PipeWindows
      n == pMapWorkerCount(PipeWindowWorkers, Len(windows))
  IN [p EXCEPT !.task[j].pc = "usage", !.task[j].usage = "pending", !.task[j].wi = n,
               !.task[j].awaited = 1..n]

\* fetchTemplateCost ends with the template tpl: the value is cached and
\* returned, the row takes its cost, and step 3 starts
ppFinishCost(p, j, tpl) ==
  LET id == p.rows[j].prepaidpackagetemplateid.n
      val == templateVal(tpl)
  IN ppBeginUsage([p EXCEPT !.cache = pipeCacheSet(p.cache, id, val),
                            !.rows[j] = assignCost(@, val)], j)

\* The states the pipeline starts from.
ppInit ==
  /\ pp \in {[NoPipeline EXCEPT !.listing = l] : l \in PipeListings}
  /\ pmUnused
  /\ crUnused
  /\ faUnused
  /\ wwUnused
  /\ agUnused
  /\ tcUnused
  /\ rtUnused
  /\ lpUnused
  /\ twUnused
  /\ gwUnused
  /\ fsUnused

\* fetchAllData(accountIdParam) up to the listing request
pipeFetchAllData(accountIdParam) ==
  /\ pp.pc = "idle"
  /\ pp' = IF ~Truthy(ToNumber(OrElse(accountIdParam, Num(0))))
             THEN [pp EXCEPT !.pc = "failed"]
             ELSE [pp EXCEPT !.pc = "list"]

\* The listing request is answered (or throws): the rows are built and pMap
\* starts the row workers.
ppListAnswer(r) ==
  /\ pp.pc = "list"
  /\ IF r = Threw
       THEN pp' = [pp EXCEPT !.pc = "failed"]
       ELSE LET subscribers == OrElse(Get(Get(r, "listSubscriber"), "subscriberList"), Arr(<<>>)).a
                p == [pp EXCEPT !.pc = "running",
                                !.rows = [j \in 1..Len(subscribers) |-> pipeRow(subscribers[j])],
                                !.task = [j \in 1..Len(subscribers) |-> NoTask]]
            IN pp' = ppSettle(ppStartWorkers(p, pMapWorkerCount(PipeRowWorkers, Len(subscribers))))

\* The package request of row j is answered (or throws): the package is
\* assigned, and the template cost is taken from the cache or its first verb
\* is sent; without template id step 3 starts.
ppPackageAnswer(j, r) ==
  /\ j \in DOMAIN pp.task
  /\ pp.task[j].pc = "package"
  /\ LET row == IF r = Threw THEN pp.rows[j] ELSE assignPackage(pp.rows[j], fetchPackagesFor(r))
         p == [pp EXCEPT !.rows[j] = row, !.task[j].heard.pkg = r, !.last = j]
         id == row.prepaidpackagetemplateid
     IN pp' = IF ~Truthy(id) THEN ppBeginUsage(p, j)
              ELSE IF id.n \in DOMAIN pp.cache
                THEN ppBeginUsage([p EXCEPT !.rows[j] = assignCost(@, pp.cache[id.n]),
                                            !.task[j].heard.cached = pp.cache[id.n]], j)
                ELSE [p EXCEPT !.task[j].pc = "list"]

\* The first template verb of row j is answered (or throws).
ppTemplateListAnswer(j, r) ==
  /\ j \in DOMAIN pp.task
  /\ pp.task[j].pc = "list"
  /\ LET tpl == pipeTemplateOfList(r)
         p == [pp EXCEPT !.task[j].heard.list = r, !.last = j]
     IN pp' = IF ~Truthy(tpl) THEN [p EXCEPT !.task[j].pc = "get"]
              ELSE ppFinishCost(p, j, tpl)

\* The second template verb of row j is answered (or throws).
ppTemplateGetAnswer(j, r) ==
  /\ j \in DOMAIN pp.task
  /\ pp.task[j].pc = "get"
  /\ pp' = ppFinishCost([pp EXCEPT !.task[j].heard.get = r, !.last = j], j, pipeTemplateOfGet(r))

\* The request of window idx of row j is answered: the callback adds it to
\* the sums and its worker sends the request of the next window or exits;
\* when the last worker exited and none had failed, the sums are assigned
\* and the row is left.
ppWindowAnswer(j, idx, r) ==
  /\ j \in DOMAIN pp.task
  /\ idx \in pp.task[j].awaited
  /\ LET t == pp.task[j]
         sums == addWindow([bytes |-> t.sumBytes, cost |-> t.sumResCost], fetchUsageWindowBoth(r))
         more == t.wi < Len(PipeWindows)
         awaited == (t.awaited \ {idx}) \cup (IF more THEN {t.wi + 1} ELSE {})
         p == [pp EXCEPT !.task[j].sumBytes = sums.bytes, !.task[j].sumResCost = sums.cost,
                         !.task[j].heard.windows = Append(@, r), !.last = j,
                         !.task[j].awaited = awaited,
                         !.task[j].wi = IF more THEN @ + 1 ELSE @]
     IN pp' = IF t.usage = "pending" /\ awaited = {}
                THEN ppLeaveRow([p EXCEPT !.task[j].usage = "resolved",
                                          !.rows[j].totalBytesSinceJun1 = Num(sums.bytes),
                                          !.rows[j].resellerCostSinceJun1 = Num(sums.cost)], j)
                ELSE p

\* The request of window idx of row j throws: its worker and pMap reject,
\* fetchAggregatedUsage rejects, catch {} of step 3 swallows it and the row
\* is left; the other window workers of the row go on.
ppWindowThrow(j, idx) ==
  /\ j \in DOMAIN pp.task
  /\ idx \in pp.task[j].awaited
  /\ LET p == [pp EXCEPT !.task[j].awaited = @ \ {idx}, !.last = j]
     IN pp' = IF pp.task[j].usage = "pending"
                THEN ppLeaveRow([p EXCEPT !.task[j].usage = "rejected"], j)
                ELSE p

PpNext ==
  \/ \E a \in {Undef, Num(7)} : pipeFetchAllData(a) /\ UNCHANGED ppOthers
  \/ \E r \in {Threw, Obj(<< <<"listSubscriber", Obj(<< <<"subscriberList", Arr(pp.listing)>> >>)>> >>)} :
       ppListAnswer(r) /\ UNCHANGED ppOthers
  \/ \E j \in 1..PipeSubs, r \in PipePackageAnswers : ppPackageAnswer(j, r) /\ UNCHANGED ppOthers
  \/ \E j \in 1..PipeSubs, r \in PipeListAnswers : ppTemplateListAnswer(j, r) /\ UNCHANGED ppOthers
  \/ \E j \in 1..PipeSubs, r \in PipeGetAnswers : ppTemplateGetAnswer(j, r) /\ UNCHANGED ppOthers
  \/ \E j \in 1..PipeSubs, idx \in 1..MaxWeeks, r \in PipeWindowAnswers \ {Threw} :
       ppWindowAnswer(j, idx, r) /\ UNCHANGED ppOthers
  \/ \E j \in 1..PipeSubs, idx \in 1..MaxWeeks : ppWindowThrow(j, idx) /\ UNCHANGED ppOthers

SpecPipeline == ppInit /\ [][PpNext]_vars

\* the requests of row j in flight
ppInFlight(j) ==
  (IF pp.task[j].pc \in {"package", "list", "get"} THEN 1 ELSE 0) + Cardinality(pp.task[j].awaited)

RECURSIVE ppInFlightUpTo(_)
ppInFlightUpTo(n) == IF n = 0 THEN 0 ELSE ppInFlight(n) + ppInFlightUpTo(n - 1)

\* C35: an entry of the template cost cache, once written, is never replaced
\* by a different value.
C35_CacheEntryStable ==
  [][\A id \in DOMAIN pp.cache : id \in DOMAIN pp'.cache /\ pp'.cache[id] = pp.cache[id]]_vars

\* C36: no more subscribers have requests in flight than the row pool has
\* workers, and no more requests are in flight than the two pool sizes
\* multiplied.
C36_PipelineBound ==
  /\ Cardinality({j \in 1..Len(pp.task) : ppInFlight(j) > 0}) <= PipeRowWorkers
  /\ ppInFlightUpTo(Len(pp.task)) <= PipeRowWorkers * PipeWindowWorkers

\* the row of subscriber j as its own answers and the cache value it read
\* determine it
ppExpectedRow(j) ==
  LET h == pp.task[j].heard
      base == pipeRow(pp.listing[j])
      packaged == IF h.pkg \in {Undef, Threw} THEN base
                  ELSE assignPackage(base, fetchPackagesFor(h.pkg))
      tpl == IF h.list = Undef THEN Null
             ELSE IF Truthy(pipeTemplateOfList(h.list)) THEN pipeTemplateOfList(h.list)
             ELSE IF h.get = Undef THEN Null
             ELSE pipeTemplateOfGet(h.get)
      val == IF h.cached # Undef THEN h.cached
             ELSE IF h.list = Undef THEN Null
             ELSE templateVal(tpl)
      costed == assignCost(packaged, val)
      summed == IF pp.task[j].usage = "resolved"
                  THEN [costed EXCEPT !.totalBytesSinceJun1 = Num(SumBytes(h.windows, 1)),
                                      !.resellerCostSinceJun1 = Num(SumCost(h.windows, 1))]
                  ELSE costed
  IN [summed EXCEPT !.sid = Deleted]

\* C38, in every state: a row that its callback has left is what the
\* answers to its own requests and the cache value it read make it; a row
\* without id is as it was built; and the run returns only when every
\* callback has ended.
C38_RowState ==
  /\ \A j \in 1..Len(pp.rows) :
       pp.task[j].pc = "done" =>
         pp.rows[j] = IF Truthy(pipeRow(pp.listing[j]).sid) THEN ppExpectedRow(j)
                      ELSE pipeRow(pp.listing[j])
  /\ pp.pc = "returned" => \A j \in 1..Len(pp.rows) : pp.task[j].pc = "done"

\* C38, in every step: the only row that changes is the row of the
\* subscriber whose request was answered.
C38_RowStep ==
  \A j \in (DOMAIN pp.rows) \cap (DOMAIN pp'.rows) :
    pp'.rows[j] # pp.rows[j] => j = pp'.last

\* C38: rows are independent: a callback writes only to its own row, the
\* final row is determined by the answers to its own requests and the cache,
\* and no sibling cancels it.
C38_RowsIndependent == []C38_RowState /\ [][C38_RowStep]_vars

\* The run returned; the usage of one subscriber failed, and a sibling whose
\* cost came from the cache has its usage totals.
C38_Witness ==
  /\ pp.pc = "returned"
  /\ \E j, k \in 1..Len(pp.rows) :
       /\ pp.task[j].usage = "rejected"
       /\ pp.task[k].usage = "resolved"
       /\ pp.task[k].heard.cached # Undef
       /\ pp.rows[k].totalBytesSinceJun1 = Num(10)

(***************************************************************************)
(* Termination of pMap and of fetchAllData.  A run is either a pMap call   *)
(* on its own or one fetchAllData call.  Every fn call and every request   *)
(* is taken to complete: a pending one stays enabled until it is answered, *)
(* so weak fairness of the next-state relation is what that assumption     *)
(* gives.                                                                  *)
(***************************************************************************)
TerminationInit == pMapInit \/ ppInit

TerminationNext ==
  \/ ppUnused /\ pMapCall /\ UNCHANGED pmOthers
  \/ \E w \in 1..MaxConc : ppUnused /\ pMapFnReturn(w) /\ UNCHANGED pmOthers
  \/ \E w \in 1..MaxConc : ppUnused /\ pMapFnThrow(w) /\ UNCHANGED pmOthers
  \/ \E a \in {Undef, Num(7)} : pmUnused /\ pipeFetchAllData(a) /\ UNCHANGED ppOthers
  \/ \E j \in 1..PipeSubs, idx \in 1..MaxWeeks :
       pmUnused /\ ppWindowThrow(j, idx) /\ UNCHANGED ppOthers
  \/ \E r \in {Threw, Obj(<< <<"listSubscriber", Obj(<< <<"subscriberList", Arr(pp.listing)>> >>)>> >>)} :
       pmUnused /\ ppListAnswer(r) /\ UNCHANGED ppOthers
  \/ \E j \in 1..PipeSubs, r \in PipeListAnswers :
       pmUnused /\ ppTemplateListAnswer(j, r) /\ UNCHANGED ppOthers
  \/ \E j \in 1..PipeSubs, r \in PipePackageAnswers :
       pmUnused /\ ppPackageAnswer(j, r) /\ UNCHANGED ppOthers
  \/ \E j \in 1..PipeSubs, r \in PipeGetAnswers :
       pmUnused /\ ppTemplateGetAnswer(j, r) /\ UNCHANGED ppOthers
  \/ \E j \in 1..PipeSubs, idx \in 1..MaxWeeks, r \in PipeWindowAnswers \ {Threw} :
       pmUnused /\ ppWindowAnswer(j, idx, r) /\ UNCHANGED ppOthers

SpecTermination == TerminationInit /\ [][TerminationNext]_vars /\ WF_vars(TerminationNext)

\* the pMap call is over: every worker left its loop and the promise settled
PmOver == PmQuiet /\ pmap.st \in {"resolved", "rejected"}

\* C39: when every fn call completes, a pending pMap call is eventually
\* over with all workers gone, and when every fn call returned it has
\* resolved with every item processed; a fetchAllData call whose listing
\* was answered eventually returns its rows, whatever its requests answer.
C39_Terminates ==
  /\ (pmap.st = "pending") ~>
       (/\ PmOver
        /\ PmThrown = {} =>
             /\ pmap.st = "resolved"
             /\ PmEnded = 1..Len(list)
             /\ \A w \in DOMAIN workers : workers[w].st = "done")
  /\ (pp.pc = "running") ~> (pp.pc = "returned")

\* fetchAllData returned the rows of more subscribers than there are row
\* workers, one of them after its package request threw.
C39_Witness ==
  /\ pp.pc = "returned"
  /\ Len(pp.rows) = PipeSubs /\ PipeSubs > PipeRowWorkers
  /\ \E j \in 1..Len(pp.rows) : pp.task[j].heard.pkg = Threw
  /\ \A j \in 1..Len(pp.rows) : pp.task[j].awaited = {}

=============================================================================
